---- MODULE Spec2Model ----
(***************************************************************************)
(* Session routing of the MasterversAcharya Telegram bot                   *)
(* (src/telegram_bot.py).                                                  *)
(*                                                                         *)
(* The state is the module-level dict user_sessions, the inline keyboards  *)
(* the bot has sent and not yet edited away, and a record of what the last *)
(* handled update did (the remote calls it issued, the replies it sent).   *)
(* main() builds the Application without concurrent_updates, so updates    *)
(* are handled one after the other and every requests.* call blocks the    *)
(* event loop: a handler runs from its first line to its last before the   *)
(* next update is looked at.  One action is one handled update.            *)
(***************************************************************************)
EXTENDS Integers, Sequences, FiniteSets, Bags, TLC

----------------------------------------------------------------------------
(* Values *)

\* update.effective_user.id of the chat users.
Users == {7, 8}

\* update.effective_user.username; "" stands for None or the empty string
\* (both are falsy for `or`).  User 7 can set and clear a username.
UsernamesOf(u) == IF u = 7 THEN {"", "alice"} ELSE {""}

\* telegram_username = update.effective_user.username or f"user{user_id}"
telegram_username(u, name) ==
    IF name = "" THEN (IF u = 7 THEN "user7" ELSE "user8") ELSE name

\* Session ids are strings, modelled as sequences of characters so that the
\* formatting and splitting of callback data act on them.  Every token other
\* than ":" is a run of characters without a colon.
IdA == <<"a">>
IdB == <<"b">>
IdAB == <<"a", ":", "b">>
\* Python's None, as stored by session_data.get("id") when the key is missing.
NoneId == <<"None">>
\* No session id: the URL of the call has none.
NoSid == <<>>

\* response.status_code == 200
HTTP_OK == 200
\* The other statuses the backend is made to answer with: one 2xx, one 4xx.
OtherStatuses == {201, 404}

----------------------------------------------------------------------------
(* The JSON body of the /run response and the text read from it *)

\* What response.json() gives: None, a number, a string, a list or a dict.
\* A string is written as its characters, one token each; a fixed text of
\* the program (a member name, a role, the fallback, the notice) is one
\* token.  A dict is its keys in order and, in items, the values under them.
J(kind, chars, num, keys, items) ==
    [kind |-> kind, chars |-> chars, num |-> num, keys |-> keys, items |-> items]
JNull == J("null", <<>>, 0, <<>>, <<>>)
JNum(n) == J("num", <<>>, n, <<>>, <<>>)
JStr(s) == J("str", s, 0, <<>>, <<>>)
JList(items) == J("list", <<>>, 0, <<>>, items)
JObj(keys, items) == J("obj", <<>>, 0, keys, items)

\* bool(v)
Truthy(v) ==
    CASE v.kind = "null" -> FALSE
      [] v.kind = "num" -> v.num # 0
      [] v.kind = "str" -> v.chars # <<>>
      [] v.kind = "list" -> v.items # <<>>
      [] v.kind = "obj" -> v.keys # <<>>

\* None and numbers: `x in v`, len(v) and iter(v) raise TypeError.
Unsized(v) == v.kind \in {"null", "num"}

\* iter(v): the items of a list, the characters of a string, the keys of a
\* dict.
Iter(v) ==
    CASE v.kind = "list" -> v.items
      [] v.kind = "str" -> [i \in DOMAIN v.chars |-> JStr(<<v.chars[i]>>)]
      [] v.kind = "obj" -> [i \in DOMAIN v.keys |-> JStr(<<v.keys[i]>>)]

\* `name in v` for a name of the program: a key of a dict, an item of a
\* list, a part of a string.
In(name, v) ==
    CASE v.kind = "obj" -> \E i \in DOMAIN v.keys : v.keys[i] = name
      [] v.kind = "list" -> \E i \in DOMAIN v.items : v.items[i] = JStr(<<name>>)
      [] v.kind = "str" -> \E i \in DOMAIN v.chars : v.chars[i] = name

\* v[name] of a dict that has the key; v[name] of a list or a string raises
\* TypeError.
Member(v, name) == v.items[CHOOSE i \in DOMAIN v.keys : v.keys[i] = name]

\* What a piece of the extraction leaves: the exception it raised, or the
\* value of model_response.
Raises == [raised |-> TRUE, value |-> JNull]
Returns(v) == [raised |-> FALSE, value |-> v]

\* a += b: strings are joined, numbers are added, a list is extended by
\* what b iterates over, anything else raises TypeError.
Add(a, b) ==
    IF a.kind = "str" /\ b.kind = "str" THEN Returns(JStr(a.chars \o b.chars))
    ELSE IF a.kind = "num" /\ b.kind = "num" THEN Returns(JNum(a.num + b.num))
    ELSE IF a.kind = "list" /\ ~Unsized(b) THEN Returns(JList(a.items \o Iter(b)))
    ELSE Raises

\* `if parts and len(parts) > 0 and "text" in parts[0]:
\*      model_response = parts[0]["text"]`
\* (parts[0] of a dict raises KeyError)
parts_text(parts, model_response) ==
    IF ~Truthy(parts) THEN Returns(model_response)
    ELSE IF Unsized(parts) \/ parts.kind = "obj" THEN Raises
    ELSE LET first == Iter(parts)[1]
         IN  IF Unsized(first) THEN Raises
             ELSE IF ~In("text", first) THEN Returns(model_response)
             ELSE IF first.kind # "obj" THEN Raises
             ELSE Returns(Member(first, "text"))

\* `if "content" in x and "parts" in x["content"]:
\*      parts = x["content"]["parts"]` and the test of parts
content_text(x, model_response) ==
    IF Unsized(x) THEN Raises
    ELSE IF ~In("content", x) THEN Returns(model_response)
    ELSE IF x.kind # "obj" THEN Raises
    ELSE LET content == Member(x, "content")
         IN  IF Unsized(content) THEN Raises
             ELSE IF ~In("parts", content) THEN Returns(model_response)
             ELSE IF content.kind # "obj" THEN Raises
             ELSE parts_text(Member(content, "parts"), model_response)

\* candidates[0].content.parts[0].text
candidates_schema(api_response, model_response) ==
    IF Unsized(api_response) THEN Raises
    ELSE IF ~In("candidates", api_response) THEN Returns(model_response)
    ELSE IF api_response.kind # "obj" THEN Raises
    ELSE LET candidates == Member(api_response, "candidates")
         IN  IF Unsized(candidates) THEN Raises
             ELSE IF ~Truthy(candidates) THEN Returns(model_response)
             ELSE IF candidates.kind = "obj" THEN Raises
             ELSE content_text(Iter(candidates)[1], model_response)

\* the response is a list: [0].content.parts[0].text.  before is what the
\* block above left: an exception goes on to the handler's except clause,
\* a value is the model_response this block starts from.
list_schema(api_response, before) ==
    IF before.raised THEN before
    ELSE IF ~Truthy(before.value) /\ api_response.kind = "list"
                                  /\ api_response.items # <<>>
    THEN content_text(api_response.items[1], before.value)
    ELSE before

\* response.parts[0].text
response_schema(api_response, before) ==
    IF before.raised \/ Truthy(before.value) THEN before
    ELSE IF Unsized(api_response) THEN Raises
    ELSE IF ~In("response", api_response) THEN before
    ELSE IF api_response.kind # "obj" THEN Raises
    ELSE LET response_obj == Member(api_response, "response")
         IN  IF response_obj.kind = "obj" /\ In("parts", response_obj)
             THEN parts_text(Member(response_obj, "parts"), before.value)
             ELSE before

\* `for part in parts: if "text" in part: model_response += part["text"]`,
\* from the i-th part on.
RECURSIVE parts_texts(_, _, _)
parts_texts(parts, i, model_response) ==
    IF i > Len(parts) THEN Returns(model_response)
    ELSE IF Unsized(parts[i]) THEN Raises
    ELSE IF ~In("text", parts[i]) THEN parts_texts(parts, i + 1, model_response)
    ELSE IF parts[i].kind # "obj" THEN Raises
    ELSE LET sum == Add(model_response, Member(parts[i], "text"))
         IN  IF sum.raised THEN Raises
             ELSE parts_texts(parts, i + 1, sum.value)

\* A scan that passes over a model message without text and goes on to the
\* messages before it.
RECURSIVE reversed_messages_until_text(_, _, _)
reversed_messages_until_text(messages, i, model_response) ==
    IF i = 0 THEN Returns(model_response)
    ELSE IF messages[i].kind # "obj" THEN Raises
    ELSE IF In("role", messages[i])
            /\ Member(messages[i], "role") = JStr(<<"model">>)
    THEN LET parts == IF In("parts", messages[i])
                      THEN Member(messages[i], "parts") ELSE JList(<<>>)
             found == IF Unsized(parts) THEN Raises
                      ELSE parts_texts(Iter(parts), 1, model_response)
         IN  IF found.raised \/ Truthy(found.value) THEN found
             ELSE reversed_messages_until_text(messages, i - 1, model_response)
    ELSE reversed_messages_until_text(messages, i - 1, model_response)

\* `for message in reversed(messages): if message.get("role") == "model":
\*      parts = message.get("parts", []); ...; break`, from the i-th message
\* down (.get of anything but a dict raises AttributeError).
RECURSIVE reversed_messages(_, _, _)
reversed_messages(messages, i, model_response) ==
    IF i = 0 THEN Returns(model_response)
    ELSE IF messages[i].kind # "obj" THEN Raises
    ELSE IF In("role", messages[i])
            /\ Member(messages[i], "role") = JStr(<<"model">>)
    THEN LET parts == IF In("parts", messages[i])
                      THEN Member(messages[i], "parts") ELSE JList(<<>>)
         IN  IF Unsized(parts) THEN Raises
             ELSE parts_texts(Iter(parts), 1, model_response)
    ELSE reversed_messages(messages, i - 1, model_response)

\* data.messages
messages_schema(api_response, before) ==
    IF before.raised \/ Truthy(before.value) THEN before
    ELSE IF Unsized(api_response) THEN Raises
    ELSE IF ~In("data", api_response) THEN before
    ELSE IF api_response.kind # "obj" THEN Raises
    ELSE LET data == Member(api_response, "data")
         IN  IF Unsized(data) THEN Raises
             ELSE IF ~In("messages", data) THEN before
             ELSE IF data.kind # "obj" THEN Raises
             ELSE LET messages == Member(data, "messages")
                  IN  IF ~Truthy(messages) THEN before
                      ELSE IF Unsized(messages) THEN Raises
                      ELSE reversed_messages(Iter(messages),
                                             Len(Iter(messages)), before.value)

\* "I received your message but couldn't generate a proper response."
Fallback == <<"I received your message but couldn't generate a proper response.">>

\* An extraction that takes the text of the response schema when there is
\* one, whatever the candidates hold.
extract_text_response_first(api_response) ==
    LET legacy == response_schema(api_response, Returns(JStr(<<>>)))
        found ==
          messages_schema(api_response,
            response_schema(api_response,
              list_schema(api_response,
                IF ~legacy.raised /\ Truthy(legacy.value) THEN legacy
                ELSE candidates_schema(api_response, JStr(<<>>)))))
    IN  IF found.raised \/ Truthy(found.value) THEN found
        ELSE Returns(JStr(Fallback))

\* handle_message, from `model_response = ""` to the fallback: the four
\* blocks one after the other, each on the value the one before left; the
\* value of model_response in the end, or the exception on the way.
extract_text(api_response) ==
    LET found ==
          messages_schema(api_response,
            response_schema(api_response,
              list_schema(api_response,
                candidates_schema(api_response, JStr(<<>>)))))
    IN  IF found.raised \/ Truthy(found.value) THEN found
        ELSE Returns(JStr(Fallback))

\* "\n\n📎 *Note:* There are artifacts available in this session that can't
\* be displayed in Telegram."
Notice == <<"notice">>

----------------------------------------------------------------------------
(* The responses of the backend *)

\* A response of the backend, or (err) the exception requests raises on a
\* network failure or a timeout.  json is what response.json() gives:
\* <<"bad">> when it raises or is not of the expected type.
Resp(status, json) == [err |-> FALSE, status |-> status, json |-> json]
ConnFail == [err |-> TRUE, status |-> 0, json |-> <<"bad">>]
NonOk == {Resp(s, <<"bad">>) : s \in OtherStatuses} \cup {ConnFail}

\* POST .../sessions: {"id": ...}, an object without id, or no JSON object.
CreateResponses ==
    {Resp(HTTP_OK, j) : j \in {<<"id", IdA>>, <<"id", IdB>>, <<"noid">>, <<"bad">>}}
        \cup NonOk
\* GET .../sessions: a list of sessions, a list with an entry without id, or
\* no JSON.
ListResponses ==
    {Resp(HTTP_OK, j) : j \in {<<"list", <<>> >>, <<"list", <<IdB, IdAB>> >>,
                               <<"list", <<NoneId>> >>, <<"bad">>}}
        \cup NonOk
\* DELETE .../sessions/{id}: the body is not read.
DeleteResponses == {Resp(HTTP_OK, <<"bad">>)} \cup NonOk
\* {"candidates": [{"content": {"parts": [{"text": ...}]}}]}
TextBody ==
    JObj(<<"candidates">>, <<JList(<<JObj(<<"content">>,
        <<JObj(<<"parts">>, <<JList(<<JObj(<<"text">>, <<JStr(<<"q">>)>>)>>)>>)>>)>>)>>)
\* POST /run: a body from which text is extracted, one no schema matches
\* ({}), one on which the extraction raises (null).
RunResponses ==
    {Resp(HTTP_OK, <<"json", j>>) : j \in {TextBody, JObj(<<>>, <<>>), JNull}}
        \cup NonOk
\* GET .../artifacts: a list (empty or not), or no JSON.
ArtifactResponses ==
    {Resp(HTTP_OK, j) : j \in {<<"list", 0>>, <<"list", 1>>, <<"bad">>}}
        \cup NonOk
\* GET /list-apps: the body is not read.
ProbeResponses == {Resp(HTTP_OK, <<"bad">>)} \cup NonOk

\* A requests call that raised, or whose response.json() did.
Raised(resp) == resp.err \/ (resp.status = HTTP_OK /\ resp.json = <<"bad">>)

\* A call that did not give the handler a 200 response it could read.
Failed(resp) == Raised(resp) \/ resp.status # HTTP_OK

\* A /run call that raised, or whose response.json() or text extraction did.
RunRaised(rresp) ==
    \/ rresp.err
    \/ /\ rresp.status = HTTP_OK
       /\ (rresp.json = <<"bad">> \/ extract_text(rresp.json[2]).raised)

\* The response of a call the handler does not come to issue.
NotAsked == ConnFail

\* A backend that accepts the connection and never answers.
Silent == [err |-> FALSE, status |-> 0, json |-> <<"silent">>]
\* requests.exceptions.Timeout, raised when the wait given by timeout= is over.
TimedOut == [err |-> TRUE, status |-> 0, json |-> <<"timeout">>]

\* The timeout= argument of the requests call a handler makes for an
\* operation, in seconds: one value, or none where the call has no such
\* argument (requests then waits without limit).
Timeouts(handler, op) ==
    IF op = "probe" THEN {5}
    ELSE IF op = "run" THEN {15}
    ELSE IF op = "create" /\ handler = "handle_message" THEN {}
    ELSE {10}

\* What the requests call gives the handler when the backend behaves as
\* resp: a silent backend raises Timeout after the wait, and with no
\* timeout= the call does not return.
Awaited(handler, op, resp) ==
    IF resp = Silent /\ Timeouts(handler, op) # {} THEN TimedOut ELSE resp

\* session_data.get("id")
JsonGetId(json) == IF json[1] = "id" THEN json[2] ELSE NoneId

----------------------------------------------------------------------------
(* The requests transport *)

\* requests.adapters.DEFAULT_RETRIES = 2
DEFAULT_RETRIES == 2

\* What the assignment would do if HTTPAdapter read its default from the
\* module attribute at call time.
HTTPAdapterRetries_rebound == DEFAULT_RETRIES

\* The retries of the adapter each requests.get/post/delete call mounts.
\* HTTPAdapter.__init__(max_retries=DEFAULT_RETRIES) bound its default (0)
\* when requests was imported, before the assignment above ran; __init__
\* then compares the argument with the module attribute and builds
\* Retry(0, read=False) when they are equal and Retry.from_int(max_retries)
\* otherwise: zero retries either way.
HTTPAdapterRetries ==
    LET max_retries == 0
    IN  IF max_retries = DEFAULT_RETRIES THEN 0 ELSE max_retries

\* How often one requests call puts the request on the wire: a connection
\* failure is re-sent as often as the adapter retries.
Attempts(resp) == IF resp.err THEN 1 + HTTPAdapterRetries ELSE 1

----------------------------------------------------------------------------
(* The dict user_sessions *)

\* user_sessions[k] = v
DictSet_setdefault(d, k, v) ==
    [x \in DOMAIN d \cup {k} |-> IF x \in DOMAIN d THEN d[x] ELSE v]

DictSet(d, k, v) == [x \in DOMAIN d \cup {k} |-> IF x = k THEN v ELSE d[x]]

\* del user_sessions[k]
DictDel(d, k) == [x \in DOMAIN d \ {k} |-> d[x]]

\* The bindings the dict holds for user u: none or one.
BindingsOf(d, u) == IF u \in DOMAIN d THEN {d[u]} ELSE {}

\* {"session_id": ..., "telegram_username": ...}
Binding(sid, handle) == [session_id |-> sid, telegram_username |-> handle]

----------------------------------------------------------------------------
(* Callback data *)

RECURSIVE Split(_, _)
\* str.split(sep) on a sequence of characters.
Split(s, sep) ==
    IF \A i \in 1..Len(s) : s[i] # sep
    THEN <<s>>
    ELSE LET i == CHOOSE i \in 1..Len(s) :
                      s[i] = sep /\ \A j \in 1..(i - 1) : s[j] # sep
         IN  <<SubSeq(s, 1, i - 1)>> \o Split(SubSeq(s, i + 1, Len(s)), sep)

\* callback_data=f"select_session:{session_id}"
SelectData(sid) == <<"select_session", ":">> \o sid
ConfirmData == <<"confirm_delete">>
CancelData == <<"cancel_delete">>

\* data.startswith("select_session:")
IsSelectData(data) ==
    Len(data) >= 2 /\ data[1] = "select_session" /\ data[2] = ":"

\* session_id = data.split(":")[1]
SelectedId(data) == Split(data, ":")[2]

----------------------------------------------------------------------------
(* The knowledge queries: strings, dates and cache keys                    *)
(* (src/spiritual_api.py, which src/agent.py imports, and the packaged     *)
(* src/masterversacharya/spiritual_api.py)                                 *)

\* A string is a sequence of tokens.  A token is "-", one character of free
\* text ("q", "x", "y", a digit), or a word that contains none of these and
\* of which no other token is a prefix; so two strings are equal exactly
\* when their token sequences are, and the length of a string made of
\* characters is its number of characters.  <<>> is the empty string and
\* also None: the code tests both with `if s:`.
Hyphen == <<"-">>

RELIGIONS ==
    {<<n>> : n \in {"christianity", "islam", "hinduism", "buddhism", "judaism",
                    "sikhism", "taoism", "jainism", "shintoism",
                    "zoroastrianism", "bahai", "confucianism", "atheism",
                    "agnosticism", "humanism"}}

PHILOSOPHIES ==
    {<<n>> : n \in {"stoicism", "existentialism", "nihilism", "pragmatism",
                    "utilitarianism", "hedonism", "rationalism", "empiricism",
                    "idealism", "materialism"}}

\* str.lower(), on the words with capitals that the inputs use.
Lowercase ==
    [t \in {"Islam", "Hinduism", "Yoga", "Expert"} |->
        CASE t = "Islam" -> "islam"
          [] t = "Hinduism" -> "hinduism"
          [] t = "Yoga" -> "yoga"
          [] t = "Expert" -> "expert"]
lower(s) ==
    [i \in DOMAIN s |-> IF s[i] \in DOMAIN Lowercase THEN Lowercase[s[i]] ELSE s[i]]

\* The whole string in place of its first n characters.
Slice_whole(s, n) == s

\* s[:n], on a string of characters.
Slice(s, n) == IF Len(s) <= n THEN s ELSE SubSeq(s, 1, n)

\* The 50 of specific_query[:50] and topic[:50].
KeyPrefix == 50

\* The names of RELIGIONS in the order of Python's string comparison.
Alphabetical ==
    <<"agnosticism", "atheism", "bahai", "buddhism", "christianity",
      "confucianism", "hinduism", "humanism", "islam", "jainism", "judaism",
      "shintoism", "sikhism", "taoism", "zoroastrianism">>
Rank(name) == CHOOSE i \in DOMAIN Alphabetical : Alphabetical[i] = name[1]

RECURSIVE sorted(_)
\* sorted(valid_religions): a list of names of RELIGIONS.
sorted(names) ==
    IF names = <<>>
    THEN <<>>
    ELSE LET least == CHOOSE i \in DOMAIN names :
                          \A j \in DOMAIN names :
                              \/ Rank(names[i]) < Rank(names[j])
                              \/ Rank(names[i]) = Rank(names[j]) /\ i <= j
         IN  <<names[least]>> \o
             sorted([k \in 1..(Len(names) - 1) |->
                        IF k < least THEN names[k] ELSE names[k + 1]])

RECURSIVE join(_, _)
\* sep.join(strings)
join(sep, strings) ==
    IF strings = <<>> THEN <<>>
    ELSE IF Len(strings) = 1 THEN strings[1]
    ELSE strings[1] \o sep \o join(sep, Tail(strings))

\* str(n) of a decimal digit.
Digit(d) == <<"0", "1", "2", "3", "4", "5", "6", "7", "8", "9">>[d + 1]
RECURSIVE str(_)
\* str(n), n >= 0: what f"{duration}" puts in a key.
str(n) == IF n < 10 THEN <<Digit(n)>> ELSE str(n \div 10) \o <<Digit(n % 10)>>

\* Seconds in a day of the calendar.
DAY == 24 * 60 * 60

\* datetime.now().strftime("%Y-%m-%d") when time.time() is t, for a clock
\* in UTC: the civil date of day t div DAY of the epoch, year in four
\* digits, month and day in two.
strftime(t) ==
    LET z == (t \div DAY) + 719468
        era == z \div 146097
        doe == z - era * 146097
        yoe == (doe - doe \div 1460 + doe \div 36524 - doe \div 146096) \div 365
        doy == doe - (365 * yoe + yoe \div 4 - yoe \div 100)
        mp == (5 * doy + 2) \div 153
        d == doy - (153 * mp + 2) \div 5 + 1
        m == IF mp < 10 THEN mp + 3 ELSE mp - 9
        y == yoe + era * 400 + (IF m <= 2 THEN 1 ELSE 0)
        two(n) == <<Digit(n \div 10), Digit(n % 10)>>
    IN  two(y \div 100) \o two(y % 100) \o Hyphen \o two(m) \o Hyphen \o two(d)

\* _get_cache_key
get_cache_key(query_type, identifier, category) ==
    IF category # <<>>
    THEN query_type \o Hyphen \o identifier \o Hyphen \o category
    ELSE query_type \o Hyphen \o identifier

----------------------------------------------------------------------------
(* The knowledge queries: SpiritualKnowledgeAPI and the tools of agent.py  *)

\* self.cache_time = 24 * 60 * 60
cache_time == 24 * 60 * 60

\* What self.model.generate_content(prompt) does: it returns a response
\* whose text is one of two contents, or it raises.
Generated(text) == [raises |-> FALSE, text |-> text]
GenerationFails == [raises |-> TRUE, text |-> 0]
Generations == {Generated(1), Generated(2), GenerationFails}

\* The result dicts: the arguments as the method echoes them and the
\* generated content, or {"status": "error", "message": ...}.
Result(args, text) == [status |-> "ok", args |-> args, content |-> text]
ErrorResult == [status |-> "error", args |-> <<>>, content |-> 0]

\* self.response_cache[cache_key] = {'data': result, 'timestamp': time.time()}
CacheEntry(result, t) == [data |-> result, timestamp |-> t]

\* What one call of a method did: the cache it leaves, the key it built
\* (NoKey when it returned before building one or builds none), whether it
\* returned the cached data, how often it invoked the Generation Service,
\* and what it returned.
NoKey == <<>>
QueryEffect(cache, key, hit, generated, result) ==
    [cache |-> cache, key |-> key, hit |-> hit, generated |-> generated,
     result |-> result]

\* A return before the key is built that leaves its error payload in the
\* cache.
Invalid_stored(cache) ==
    QueryEffect(DictSet(cache, NoKey, CacheEntry(ErrorResult, 0)),
                NoKey, FALSE, 0, ErrorResult)

\* The returns before a key is built: a validation error, or a ValueError
\* caught by the method's except branch.
Invalid(cache) == QueryEffect(cache, NoKey, FALSE, 0, ErrorResult)

\* The freshness test, counting an entry whose age is the TTL as fresh.
Fresh_inclusive(cache, key, t) ==
    key \in DOMAIN cache /\ t - cache[key].timestamp <= cache_time

\* if cache_key in self.response_cache:
\*     if time.time() - cache_entry['timestamp'] < self.cache_time:
Fresh(cache, key, t) ==
    key \in DOMAIN cache /\ t - cache[key].timestamp < cache_time

\* The part every caching method shares, leaving a stale entry in place
\* instead of replacing it.
fetch_no_refresh(cache, t, key, args, g) ==
    IF Fresh(cache, key, t)
    THEN QueryEffect(cache, key, TRUE, 0, cache[key].data)
    ELSE IF g.raises
    THEN QueryEffect(cache, key, FALSE, 1, ErrorResult)
    ELSE QueryEffect(IF key \in DOMAIN cache
                     THEN cache
                     ELSE DictSet(cache, key, CacheEntry(Result(args, g.text), t)),
                     key, FALSE, 1, Result(args, g.text))

\* A lookup that stores the error payload of a failed generation.
fetch_store_error(cache, t, key, args, g) ==
    IF Fresh(cache, key, t)
    THEN QueryEffect(cache, key, TRUE, 0, cache[key].data)
    ELSE LET result == IF g.raises THEN ErrorResult ELSE Result(args, g.text)
         IN  QueryEffect(DictSet(cache, key, CacheEntry(result, t)),
                         key, FALSE, 1, result)

\* The part every caching method shares, from "Check cache first" to the
\* return: the cached data when the entry is fresh, else one generation,
\* whose result is stored under the key with the current time; when the
\* generation raises, the except branch returns an error and nothing is
\* stored.
fetch(cache, t, key, args, g) ==
    IF Fresh(cache, key, t)
    THEN QueryEffect(cache, key, TRUE, 0, cache[key].data)
    ELSE IF g.raises
    THEN QueryEffect(cache, key, FALSE, 1, ErrorResult)
    ELSE QueryEffect(DictSet(cache, key, CacheEntry(Result(args, g.text), t)),
                     key, FALSE, 1, Result(args, g.text))

\* get_religious_information
religion_key(religion, category, specific_query) ==
    get_cache_key(<<"religion">>, religion, category) \o
        (IF specific_query # <<>>
         THEN Hyphen \o Slice(specific_query, KeyPrefix) ELSE <<>>)
\* get_religious_information without the test of the religion.
get_religious_information_effect_unchecked(cache, t, religion, category, specific_query, g) ==
    fetch(cache, t, religion_key(lower(religion), category, specific_query),
          <<lower(religion), category, specific_query>>, g)
get_religious_information_effect(cache, t, religion, category, specific_query, g) ==
    IF religion = <<>> \/ lower(religion) \notin RELIGIONS
    THEN Invalid(cache)
    ELSE fetch(cache, t, religion_key(lower(religion), category, specific_query),
               <<lower(religion), category, specific_query>>, g)

\* get_philosophical_perspective
philosophy_key(philosophy, topic) ==
    get_cache_key(<<"philosophy">>, philosophy, <<>>) \o
        (IF topic # <<>> THEN Hyphen \o Slice(topic, KeyPrefix) ELSE <<>>)
get_philosophical_perspective_effect(cache, t, philosophy, topic, g) ==
    IF philosophy = <<>> \/ lower(philosophy) \notin PHILOSOPHIES
    THEN Invalid(cache)
    ELSE fetch(cache, t, philosophy_key(lower(philosophy), topic),
               <<lower(philosophy), topic>>, g)

\* compare_religions
comparison_key(religion1, religion2, aspect) ==
    get_cache_key(<<"comparison">>, religion1 \o Hyphen \o religion2, aspect)
compare_religions_effect(cache, t, religion1, religion2, aspect, g) ==
    IF religion1 = <<>> \/ religion2 = <<>>
    THEN Invalid(cache)
    ELSE IF lower(religion1) \notin RELIGIONS \/ lower(religion2) \notin RELIGIONS
    THEN Invalid(cache)
    ELSE fetch(cache, t,
               comparison_key(lower(religion1), lower(religion2), aspect),
               <<lower(religion1), lower(religion2), aspect>>, g)

\* A key of the daily insight that leaves the date out.
daily_key_undated(today, tradition, theme) ==
    <<"daily">> \o
        (IF tradition # <<>> THEN Hyphen \o tradition ELSE <<>>) \o
        (IF theme # <<>> THEN Hyphen \o theme ELSE <<>>)

\* get_daily_spiritual_insight of src/spiritual_api.py: the key holds the
\* date, and an entry under the key is returned whatever its age (the date
\* test compares today's date with itself).
daily_key(today, tradition, theme) ==
    <<"daily">> \o Hyphen \o today \o
        (IF tradition # <<>> THEN Hyphen \o tradition ELSE <<>>) \o
        (IF theme # <<>> THEN Hyphen \o theme ELSE <<>>)
get_daily_spiritual_insight_effect(cache, t, tradition, theme, g) ==
    LET today == strftime(t)
        cache_key == daily_key(today, tradition, theme)
        result == Result(<<today, tradition, theme>>, g.text)
    IN  IF cache_key \in DOMAIN cache /\ strftime(t) = today
        THEN QueryEffect(cache, cache_key, TRUE, 0, cache[cache_key].data)
        ELSE IF g.raises
        THEN QueryEffect(cache, cache_key, FALSE, 1, ErrorResult)
        ELSE QueryEffect(DictSet(cache, cache_key, CacheEntry(result, t)),
                         cache_key, FALSE, 1, result)

\* get_daily_spiritual_insight of the packaged module: no key, no cache.
packaged_get_daily_spiritual_insight_effect(cache, t, tradition, theme, g) ==
    QueryEffect(cache, NoKey, FALSE, 1,
                IF g.raises THEN ErrorResult
                ELSE Result(<<strftime(t), tradition, theme>>, g.text))

\* get_meditation_guide of the packaged module
meditation_key(tradition, duration, focus) ==
    get_cache_key(<<"meditation">>, focus \o Hyphen \o str(duration),
                  IF tradition # <<>> THEN tradition ELSE <<"general">>)
get_meditation_guide_effect(cache, t, tradition, duration, focus, g) ==
    IF duration < 1 \/ duration > 60
    THEN Invalid(cache)
    ELSE fetch(cache, t, meditation_key(tradition, duration, focus),
               <<tradition, str(duration), focus>>, g)

\* valid_religions of get_interfaith_dialogue
DefaultReligions ==
    << <<"christianity">>, <<"islam">>, <<"hinduism">>, <<"buddhism">>,
       <<"judaism">> >>
valid_religions(religions) ==
    LET given == IF Len(religions) < 2 THEN DefaultReligions ELSE religions
    IN  SelectSeq([i \in DOMAIN given |-> lower(given[i])],
                  LAMBDA r : r \in RELIGIONS)

\* get_interfaith_dialogue of the packaged module
interfaith_key(valid, topic) ==
    get_cache_key(<<"interfaith">>, join(Hyphen, sorted(valid)),
                  Slice(topic, KeyPrefix))
get_interfaith_dialogue_effect(cache, t, topic, religions, g) ==
    IF topic = <<>>
    THEN Invalid(cache)
    ELSE IF Len(valid_religions(religions)) < 2
    THEN Invalid(cache)
    ELSE fetch(cache, t, interfaith_key(valid_religions(religions), topic),
               <<topic, valid_religions(religions)>>, g)

\* get_interfaith_dialogue of src/agent.py, the tool the agent is given:
\* no key, no cache, one generation per call.
agent_get_interfaith_dialogue_effect(cache, t, topic, religions, g) ==
    IF Len(valid_religions(religions)) < 2
    THEN Invalid(cache)
    ELSE QueryEffect(cache, NoKey, FALSE, 1,
                     IF g.raises THEN ErrorResult
                     ELSE Result(<<topic, valid_religions(religions)>>, g.text))

\* get_spiritual_practice_guide of the packaged module
valid_levels == {<<"beginner">>, <<"intermediate">>, <<"advanced">>}
practice_level(level) == IF lower(level) \in valid_levels THEN level ELSE <<"beginner">>
practice_key(practice, tradition, level) ==
    get_cache_key(<<"practice">>, lower(practice) \o Hyphen \o lower(level),
                  IF tradition # <<>> THEN lower(tradition) ELSE <<"general">>)
get_spiritual_practice_guide_effect(cache, t, practice, tradition, level, g) ==
    IF practice = <<>>
    THEN Invalid(cache)
    ELSE fetch(cache, t, practice_key(practice, tradition, practice_level(level)),
               <<practice, tradition, practice_level(level)>>, g)

\* get_meditation_guide of src/spiritual_api.py, the method the tool of
\* src/agent.py calls: the key is built from whatever duration is given.
agent_get_meditation_guide_effect(cache, t, tradition, duration, focus, g) ==
    fetch(cache, t,
          <<"meditation">> \o Hyphen \o str(duration) \o Hyphen \o focus \o
              (IF tradition # <<>> THEN Hyphen \o tradition ELSE <<>>),
          <<tradition, str(duration), focus>>, g)

\* get_spiritual_practice_guide of src/agent.py, the tool the agent is
\* given: the level is checked, then one generation per call, no cache.
agent_get_spiritual_practice_guide_effect(cache, t, practice, tradition, level, g) ==
    QueryEffect(cache, NoKey, FALSE, 1,
                IF g.raises THEN ErrorResult
                ELSE Result(<<practice, tradition, practice_level(level)>>, g.text))

----------------------------------------------------------------------------
(* Bounds *)

\* Inline keyboards the chats hold at one time (sent and not yet edited away).
MaxKeyboards == 2

----------------------------------------------------------------------------
VARIABLES
    phase,          \* "starting" until the module's startup code has run, then
                    \* "polling" (run_polling serves updates) or "exited"
    user_sessions,  \* the dict: user id -> binding
    keyboards,      \* bag of the inline keyboards still shown in the chats
    asked,          \* users who have been shown a delete confirmation
    lastWrite,      \* per user, the binding set the last write left ({} after del)
    last,           \* what the last handled update did; afterFailedRun: it
                    \* is a message that directly follows a message of the same
                    \* user whose /run call failed
    loop,           \* the Application's event loop: the updates fetched and
                    \* not yet processed, the handler coroutines suspended
                    \* at an await, and whether the handler that ended last
                    \* ended in an exception it did not catch
    response_cache, \* the dict of the SpiritualKnowledgeAPI: key -> entry
    now,            \* time.time(), in seconds
    lastq,          \* what the last knowledge query did
    tasks           \* per thread that calls the methods concurrently: where
                    \* it is in a call, the key it built, the arguments

\* The variables of the bot and those of the knowledge queries.
botVars == <<phase, user_sessions, keyboards, asked, lastWrite, last, loop>>
apiVars == <<response_cache, now, lastq, tasks>>
vars == <<phase, user_sessions, keyboards, asked, lastWrite, last, loop,
          response_cache, now, lastq, tasks>>

\* One remote call as issued by a handler: the operation, the user handle
\* and session id in its URL or body, the response, the times it went on the
\* wire, and the caller's bindings when it was issued.
Call(op, handle, sid, resp, store, u) ==
    [op |-> op, handle |-> handle, sid |-> sid, resp |-> resp,
     attempts |-> Attempts(resp), before |-> BindingsOf(store, u)]

\* What a handler did: the dict it leaves, its writes to the dict in order
\* (each as the binding set it leaves for the user), the remote calls in
\* order, the replies in order, the keyboards it sent, and for each reply
\* the number of remote calls issued before it was sent (a handler that
\* replies does so after its calls, unless it says otherwise).
Effect(store, writes, calls, replies, sent) ==
    [store |-> store, writes |-> writes, calls |-> calls,
     replies |-> replies, sent |-> sent,
     after |-> [i \in DOMAIN replies |-> Len(calls)]]

\* A message with an inline keyboard: the user whose command it answers, its
\* buttons' callback data, and the session id its text shows.  The message
\* is in the chat the command came from; in a group chat every member can
\* press its buttons.
Keyboard(u, buttons, shown) == [user |-> u, buttons |-> buttons, shown |-> shown]

\* The except branches: the error is logged and an apology is sent; nothing
\* the handler did before is undone.
WentWrong(store, writes, calls, replies) ==
    Effect(store, writes, calls, replies \o << <<"went_wrong">> >>, {})

----------------------------------------------------------------------------
(* The handlers, as functions of the dict, the update and the responses *)

\* start, help_command: a fixed text.
start_effect(store) == Effect(store, <<>>, <<>>, << <<"welcome">> >>, {})
help_effect(store) == Effect(store, <<>>, <<>>, << <<"help">> >>, {})

\* new_session, answering a user who has a binding without asking the
\* backend for another session.
new_session_effect_keep_active(store, u, handle, resp) ==
    LET call == Call("create", handle, NoSid, resp, store, u)
    IN  IF u \in DOMAIN store
        THEN Effect(store, <<>>, <<>>, << <<"created">> >>, {})
        ELSE IF Raised(resp)
        THEN WentWrong(store, <<>>, <<call>>, <<>>)
        ELSE IF resp.status = HTTP_OK
        THEN LET b == Binding(JsonGetId(resp.json), handle)
             IN  Effect(DictSet(store, u, b), <<{b}>>, <<call>>,
                        << <<"created">> >>, {})
        ELSE Effect(store, <<>>, <<call>>, << <<"create_failed">> >>, {})

\* new_session
new_session_effect(store, u, handle, resp) ==
    LET call == Call("create", handle, NoSid, resp, store, u)
    IN  IF Raised(resp)
        THEN WentWrong(store, <<>>, <<call>>, <<>>)
        ELSE IF resp.status = HTTP_OK
        THEN LET b == Binding(JsonGetId(resp.json), handle)
             IN  Effect(DictSet(store, u, b), <<{b}>>, <<call>>,
                        << <<"created">> >>, {})
        ELSE Effect(store, <<>>, <<call>>, << <<"create_failed">> >>, {})

\* list_sessions, binding the first listed session as a side effect.
list_sessions_effect_autoselect(store, u, handle, resp) ==
    LET call == Call("list", handle, NoSid, resp, store, u)
    IN  IF Failed(resp) \/ resp.json[2] = <<>>
        THEN Effect(store, <<>>, <<call>>, << <<"list_failed">> >>, {})
        ELSE LET b == Binding(resp.json[2][1], handle)
             IN  Effect(DictSet(store, u, b), <<{b}>>, <<call>>,
                        << <<"menu">> >>, {})

\* list_sessions
list_sessions_effect(store, u, handle, resp) ==
    LET call == Call("list", handle, NoSid, resp, store, u)
    IN  IF Raised(resp)
        THEN WentWrong(store, <<>>, <<call>>, <<>>)
        ELSE IF resp.status = HTTP_OK
        THEN LET sessions == resp.json[2]
             IN  IF sessions = <<>>
                 THEN Effect(store, <<>>, <<call>>, << <<"no_sessions">> >>, {})
                 ELSE IF \E i \in 1..Len(sessions) : sessions[i] = NoneId
                 THEN \* len(session_id) raises on None
                      WentWrong(store, <<>>, <<call>>, <<>>)
                 ELSE Effect(store, <<>>, <<call>>, << <<"menu">> >>,
                        {Keyboard(u, {SelectData(sessions[i]) :
                                          i \in 1..Len(sessions)}, NoSid)})
        ELSE Effect(store, <<>>, <<call>>, << <<"list_failed">> >>, {})

\* delete_session, deleting at once instead of asking.
delete_session_effect_immediate(store, u) ==
    IF u \notin DOMAIN store
    THEN Effect(store, <<>>, <<>>, << <<"no_active">> >>, {})
    ELSE Effect(DictDel(store, u), <<{}>>,
                <<Call("delete", store[u].telegram_username,
                       store[u].session_id, Resp(HTTP_OK, <<"bad">>), store, u)>>,
                << <<"deleted">> >>, {})

\* delete_session
delete_session_effect(store, u) ==
    IF u \notin DOMAIN store
    THEN Effect(store, <<>>, <<>>, << <<"no_active">> >>, {})
    ELSE Effect(store, <<>>, <<>>, << <<"confirm_prompt">> >>,
                {Keyboard(u, {ConfirmData, CancelData}, store[u].session_id)})

\* button_callback, data.startswith("select_session:")
select_branch(store, u, handle, data) ==
    LET b == Binding(SelectedId(data), handle)
    IN  Effect(DictSet(store, u, b), <<{b}>>, <<>>, << <<"selected">> >>, {})

\* button_callback, data == "confirm_delete", dropping the binding before the
\* response is looked at.
confirm_branch_optimistic(store, u, handle, resp) ==
    IF u \in DOMAIN store
    THEN Effect(DictDel(store, u), <<{}>>,
                <<Call("delete", handle, store[u].session_id, resp, store, u)>>,
                << <<"deleted">> >>, {})
    ELSE Effect(store, <<>>, <<>>, << <<"no_active">> >>, {})

\* button_callback, data == "confirm_delete"
confirm_branch(store, u, handle, resp) ==
    IF u \in DOMAIN store
    THEN LET session_id == store[u].session_id
             call == Call("delete", handle, session_id, resp, store, u)
         IN  IF resp.err
             THEN WentWrong(store, <<>>, <<call>>, <<>>)
             ELSE IF resp.status = HTTP_OK
             THEN Effect(DictDel(store, u), <<{}>>, <<call>>,
                         << <<"deleted">> >>, {})
             ELSE Effect(store, <<>>, <<call>>, << <<"delete_failed">> >>, {})
    ELSE Effect(store, <<>>, <<>>, << <<"no_active">> >>, {})

\* button_callback, data == "cancel_delete"
cancel_branch(store, u, handle, resp) ==
    Effect(store, <<>>, <<>>, << <<"cancelled">> >>, {})

\* button_callback
button_callback_effect(store, u, handle, data, resp) ==
    IF IsSelectData(data)
    THEN select_branch(store, u, handle, data)
    ELSE IF data = ConfirmData
    THEN confirm_branch(store, u, handle, resp)
    ELSE IF data = CancelData
    THEN cancel_branch(store, u, handle, resp)
    ELSE Effect(store, <<>>, <<>>, <<>>, {})

\* handle_message: `if user_id not in user_sessions`
NeedsSession(store, u) == u \notin DOMAIN store

\* handle_message, the else branch of the /run status check: a reply only.
AfterRunFailure_drop(store, u) == DictDel(store, u)

AfterRunFailure(store, u) == store

\* handle_message from "Get the session ID" on, with the artifact query
\* issued before the /run call and whatever that call returns.
forward_message_artifacts_first(pre, u, handle, rresp, aresp) ==
    LET session_id == pre.store[u].session_id
        run == Call("run", handle, session_id, rresp, pre.store, u)
        art == Call("artifacts", handle, session_id, aresp, pre.store, u)
    IN  Effect(pre.store, pre.writes, pre.calls \o <<art, run>>,
               pre.replies \o << <<"answer", JStr(<<"q">>)>> >>, {})

\* handle_message from "Get the session ID" on, with the notice left off
\* the fallback text.
forward_message_bare_fallback(pre, u, handle, rresp, aresp) ==
    LET session_id == pre.store[u].session_id
        run == Call("run", handle, session_id, rresp, pre.store, u)
        art == Call("artifacts", handle, session_id, aresp, pre.store, u)
        model_response == extract_text(rresp.json[2]).value
        noted == IF model_response = JStr(Fallback) \/ aresp.json[2] = 0
                 THEN model_response ELSE JStr(model_response.chars \o Notice)
    IN  IF ~RunRaised(rresp) /\ rresp.status = HTTP_OK
           /\ aresp.status = HTTP_OK /\ ~Raised(aresp)
           /\ model_response.kind = "str"
        THEN [Effect(pre.store, pre.writes, pre.calls \o <<run, art>>,
                     pre.replies \o << <<"answer", noted>> >>, {})
                EXCEPT !.after = pre.after \o <<Len(pre.calls) + 2>>]
        ELSE WentWrong(pre.store, pre.writes, pre.calls \o <<run>>, pre.replies)

\* handle_message from "Show typing indicator" on: the /run call with the
\* session id read before, the text extraction, the artifact query, the
\* reply.  pre is what the session check before it did, with the dict as it
\* is now.
forward(pre, session_id, u, handle, rresp, aresp) ==
    LET run == Call("run", handle, session_id, rresp, pre.store, u)
        art == Call("artifacts", handle, session_id, aresp, pre.store, u)
        e == IF RunRaised(rresp)
             THEN WentWrong(pre.store, pre.writes, pre.calls \o <<run>>,
                            pre.replies)
             ELSE IF rresp.status = HTTP_OK
             THEN LET model_response == extract_text(rresp.json[2]).value
                      noted == IF Raised(aresp) THEN Raises
                               ELSE IF aresp.status = HTTP_OK /\ aresp.json[2] > 0
                               THEN Add(model_response, JStr(Notice))
                               ELSE Returns(model_response)
                  IN  IF noted.raised
                      THEN WentWrong(pre.store, pre.writes,
                                     pre.calls \o <<run, art>>, pre.replies)
                      ELSE Effect(pre.store, pre.writes,
                                  pre.calls \o <<run, art>>,
                                  pre.replies \o << <<"answer", noted.value>> >>,
                                  {})
             ELSE Effect(AfterRunFailure(pre.store, u), pre.writes,
                         pre.calls \o <<run>>,
                         pre.replies \o << <<"run_failed">> >>, {})
    IN  \* the replies of the session check were sent before the /run call
        [e EXCEPT !.after = pre.after \o <<Len(e.calls)>>]

\* handle_message from "Get the session ID" on.
forward_message(pre, u, handle, rresp, aresp) ==
    forward(pre, pre.store[u].session_id, u, handle, rresp, aresp)

\* handle_message, "Check if user has an active session": with a create
\* call that fails twice issued twice.
ensure_session_retry(store, u, handle, cresp) ==
    LET create == Call("create", handle, NoSid, cresp, store, u)
    IN  IF ~NeedsSession(store, u)
        THEN Effect(store, <<>>, <<>>, <<>>, {})
        ELSE IF cresp = Silent
        THEN \* requests.post without timeout= does not return
             Effect(store, <<>>, <<create>>, <<>>, {})
        ELSE IF Raised(cresp)
        THEN Effect(store, <<>>, <<create, create>>,
                    << <<"went_wrong_session">> >>, {})
        ELSE IF cresp.status = HTTP_OK
        THEN LET b == Binding(JsonGetId(cresp.json), handle)
             IN  Effect(DictSet(store, u, b), <<{b}>>, <<create>>,
                        << <<"auto_created">> >>, {})
        ELSE Effect(store, <<>>, <<create, create>>,
                    << <<"auto_create_failed">> >>, {})

\* handle_message, "Check if user has an active session": the automatic
\* create.  The handler returns after it exactly when it leaves no binding,
\* and does not return from it when the backend is silent.
ensure_session(store, u, handle, cresp) ==
    LET create == Call("create", handle, NoSid, cresp, store, u)
    IN  IF ~NeedsSession(store, u)
        THEN Effect(store, <<>>, <<>>, <<>>, {})
        ELSE IF cresp = Silent
        THEN \* requests.post without timeout= does not return
             Effect(store, <<>>, <<create>>, <<>>, {})
        ELSE IF Raised(cresp)
        THEN Effect(store, <<>>, <<create>>, << <<"went_wrong_session">> >>, {})
        ELSE IF cresp.status = HTTP_OK
        THEN LET b == Binding(JsonGetId(cresp.json), handle)
             IN  Effect(DictSet(store, u, b), <<{b}>>, <<create>>,
                        << <<"auto_created">> >>, {})
        ELSE Effect(store, <<>>, <<create>>, << <<"auto_create_failed">> >>, {})

\* handle_message
handle_message_effect(store, u, handle, cresp, rresp, aresp) ==
    LET pre == ensure_session(store, u, handle, cresp)
    IN  IF NeedsSession(pre.store, u)
        THEN pre
        ELSE forward_message(pre, u, handle, rresp, aresp)

----------------------------------------------------------------------------
(* The state machine *)

NoKeyboard == Keyboard(0, {}, NoSid)

\* Two threads that share one SpiritualKnowledgeAPI.
Threads == {"t1", "t2"}

\* The clock starts one second before midnight, so that the date changes
\* long before an entry of that second is a day old.
ClockStart == 20454 * DAY - 1

Init ==
    /\ response_cache = <<>>
    /\ now = ClockStart
    /\ lastq = [fn |-> "init", input |-> <<>>, key |-> NoKey, hit |-> FALSE,
                generated |-> 0, result |-> ErrorResult, at |-> ClockStart,
                found |-> {}]
    /\ tasks = [w \in Threads |-> [pc |-> "idle", key |-> NoKey, args |-> <<>>]]
    /\ phase = "starting"
    /\ user_sessions = <<>>
    /\ keyboards = EmptyBag
    /\ asked = {}
    /\ lastWrite = [u \in Users |-> {}]
    /\ last = [op |-> "init", user |-> 0, data |-> <<>>,
               pressed |-> NoKeyboard, calls |-> <<>>, replies |-> <<>>,
               after |-> <<>>, afterFailedRun |-> FALSE]
    /\ loop = [queue |-> <<>>, running |-> {}, raised |-> FALSE]

\* A probe that is content with any answer of the server.
check_api_server_any_status(resp) == ~resp.err

\* check_api_server: any exception gives False.
check_api_server(resp) == ~resp.err /\ resp.status = HTTP_OK

\* The startup code: the module exits when TELEGRAM_TOKEN is not set (token
\* is FALSE); main() returns when the probe fails and otherwise builds the
\* Application and polls.
main(token, resp) ==
    LET probe == Awaited("main", "probe", resp)
    IN  /\ phase = "starting"
        /\ phase' = IF token /\ check_api_server(probe)
                     THEN "polling" ELSE "exited"
        /\ last' = [last EXCEPT
                       !.op = "main",
                       !.calls = IF token
                                 THEN <<Call("probe", "", NoSid, probe,
                                             user_sessions, 0)>>
                                 ELSE <<>>]
        /\ UNCHANGED <<user_sessions, keyboards, asked, lastWrite, loop>>
        /\ UNCHANGED apiVars

\* A handler is in a requests call that does not return.  Updates are
\* handled one after the other, so no other update is handled either.
Hung == \E i \in DOMAIN last.calls : last.calls[i].resp = Silent

\* The end of a handler: handler op ran for user u and had effect e; pressed
\* is the keyboard whose button brought a callback query (its message is
\* edited, which removes the keyboard).
\* An update whose reply would put more than
\* MaxKeyboards keyboards in the chats is not taken.
Applied(op, u, data, pressed, e) ==
    LET left == IF pressed = NoKeyboard
                THEN keyboards
                ELSE keyboards (-) SetToBag({pressed})
        shown == left (+) SetToBag(e.sent)
    IN  /\ phase = "polling"
        /\ ~Hung
        /\ BagCardinality(shown) <= MaxKeyboards
        /\ phase' = phase
        /\ UNCHANGED apiVars
        /\ user_sessions' = e.store
        /\ keyboards' = shown
        /\ asked' = asked \cup {k.user : k \in {x \in e.sent : ConfirmData \in x.buttons}}
        /\ lastWrite' = IF e.writes = <<>>
                        THEN lastWrite
                        ELSE [lastWrite EXCEPT ![u] = e.writes[Len(e.writes)]]
        /\ last' = [op |-> op, user |-> u, data |-> data, pressed |-> pressed,
                    calls |-> e.calls, replies |-> e.replies,
                    after |-> e.after,
                    afterFailedRun |->
                        /\ op = "handle_message"
                        /\ last.op = "handle_message"
                        /\ last.user = u
                        /\ \E i \in DOMAIN last.calls :
                              /\ last.calls[i].op = "run"
                              /\ Failed(last.calls[i].resp)]

\* An update handled from the first line of its handler to the last, with
\* no other update looked at meanwhile.
Handled(op, u, data, pressed, e) ==
    /\ Applied(op, u, data, pressed, e)
    /\ loop' = loop

start(u) ==
    Handled("start", u, <<>>, NoKeyboard, start_effect(user_sessions))

help_command(u) ==
    Handled("help_command", u, <<>>, NoKeyboard, help_effect(user_sessions))

new_session(u, name, resp) ==
    Handled("new_session", u, <<>>, NoKeyboard,
            new_session_effect(user_sessions, u, telegram_username(u, name),
                               Awaited("new_session", "create", resp)))

list_sessions(u, name, resp) ==
    Handled("list_sessions", u, <<>>, NoKeyboard,
            list_sessions_effect(user_sessions, u, telegram_username(u, name),
                                 Awaited("list_sessions", "list", resp)))

delete_session(u) ==
    Handled("delete_session", u, <<>>, NoKeyboard,
            delete_session_effect(user_sessions, u))

\* A callback query reaches the bot when user u presses a button of a
\* keyboard shown in a chat; the handler does not look at whose command the
\* keyboard answered.
button_callback(u, name, pressed, data, resp) ==
    /\ BagIn(pressed, keyboards)
    /\ data \in pressed.buttons
    /\ Handled("button_callback", u, data, pressed,
               button_callback_effect(user_sessions, u,
                                      telegram_username(u, name), data,
                                      Awaited("button_callback", "delete", resp)))

handle_message(u, name, cresp, rresp, aresp) ==
    Handled("handle_message", u, <<>>, NoKeyboard,
            handle_message_effect(user_sessions, u, telegram_username(u, name),
                                  Awaited("handle_message", "create", cresp),
                                  Awaited("handle_message", "run", rresp),
                                  Awaited("handle_message", "artifacts", aresp)))

\* The responses drawn for an update are those of the calls its handler
\* comes to issue; a call that is not issued has none.  R gives, per remote
\* operation, the responses the backend is made to give.
DeleteAsked(R, u, data) ==
    IF data = ConfirmData /\ u \in DOMAIN user_sessions
    THEN R.delete ELSE {NotAsked}
CreateAsked(R, u) ==
    IF NeedsSession(user_sessions, u) THEN R.create ELSE {NotAsked}
RunAsked(R, u, cresp) ==
    IF NeedsSession(user_sessions, u) /\ (Raised(cresp) \/ cresp.status # HTTP_OK)
    THEN {NotAsked} ELSE R.run
ArtifactsAsked(R, rresp) ==
    IF RunRaised(rresp) \/ rresp.status # HTTP_OK
    THEN {NotAsked} ELSE R.artifacts
ProbeAsked(R, token) == IF token THEN R.probe ELSE {NotAsked}
\* The username matters to the handlers that build a URL or a binding.
UsernameRead(N, u, data) ==
    IF data = CancelData \/ (data = ConfirmData /\ u \notin DOMAIN user_sessions)
    THEN {""} ELSE N[u]

\* The updates of the users U, whose usernames are drawn from N[u], against
\* a backend answering from R.
NextFor(U, N, R) ==
    \/ \E token \in BOOLEAN : \E resp \in ProbeAsked(R, token) : main(token, resp)
    \/ \E u \in U : start(u)
    \/ \E u \in U : help_command(u)
    \/ \E u \in U : \E name \in N[u] :
          \E resp \in R.create : new_session(u, name, resp)
    \/ \E u \in U : \E name \in N[u] :
          \E resp \in R.list : list_sessions(u, name, resp)
    \/ \E u \in U : delete_session(u)
    \/ \E u \in U : \E pressed \in BagToSet(keyboards) :
          \E data \in pressed.buttons : \E name \in UsernameRead(N, u, data) :
            \E resp \in DeleteAsked(R, u, data) :
              button_callback(u, name, pressed, data, resp)
    \/ \E u \in U : \E name \in N[u] :
          \E cresp \in CreateAsked(R, u) : \E rresp \in RunAsked(R, u, cresp) :
            \E aresp \in ArtifactsAsked(R, rresp) :
              handle_message(u, name, cresp, rresp, aresp)

\* Every response of every operation.
AllResponses ==
    [create |-> CreateResponses, list |-> ListResponses,
     delete |-> DeleteResponses, run |-> RunResponses,
     artifacts |-> ArtifactResponses, probe |-> ProbeResponses]

\* Every response of the list call; a success and a failure of the others.
FewResponses ==
    [create |-> {Resp(HTTP_OK, <<"id", IdA>>), Resp(HTTP_OK, <<"id", IdB>>), ConnFail},
     list |-> ListResponses,
     delete |-> {Resp(HTTP_OK, <<"bad">>), Resp(404, <<"bad">>)},
     run |-> {Resp(HTTP_OK, <<"json", TextBody>>), Resp(404, <<"bad">>)},
     artifacts |-> {Resp(HTTP_OK, <<"list", 0>>)},
     probe |-> {Resp(HTTP_OK, <<"bad">>), ConnFail}]

\* One user, who may change username between updates, and every response.
Next == NextFor({7}, [u \in {7} |-> UsernamesOf(u)], AllResponses)

Spec == Init /\ [][Next]_vars

\* Two users with fixed usernames.
NextTwoUsers == NextFor(Users, [u \in Users |-> {""}], FewResponses)

SpecTwoUsers == Init /\ [][NextTwoUsers]_vars

\* A backend that, for each operation, answers well or never answers.
SilentResponses ==
    [create |-> {Resp(HTTP_OK, <<"id", IdA>>), Silent},
     list |-> {Resp(HTTP_OK, <<"list", <<IdB, IdAB>> >>), Silent},
     delete |-> {Resp(HTTP_OK, <<"bad">>), Silent},
     run |-> {Resp(HTTP_OK, <<"json", TextBody>>), Silent},
     artifacts |-> {Resp(HTTP_OK, <<"list", 1>>), Silent},
     probe |-> {Resp(HTTP_OK, <<"bad">>), Silent}]

\* One user against that backend.
NextSilent == NextFor({7}, [u \in {7} |-> {""}], SilentResponses)

SpecSilent == Init /\ [][NextSilent]_vars

\* Bodies of the /run response in the shapes the extraction knows, with the
\* texts "q", "x", "y" and "": no member, one schema, several schemas at
\* once, messages of several roles.
ShapedBodies ==
    LET Of(k, v) == JObj(<<k>>, <<v>>)
        Part(c) == Of("text", JStr(c))
        Parts(ps) == Of("parts", JList(ps))
        Content(ps) == Of("content", Parts(ps))
        Both(k1, v1, k2, v2) == JObj(<<k1, k2>>, <<v1, v2>>)
        Msg(role, ps) == Both("role", JStr(<<role>>), "parts", JList(ps))
        Data(ms) == Of("data", Of("messages", JList(ms)))
    IN  {JObj(<<>>, <<>>), JList(<<>>), TextBody,
         Of("candidates", JList(<<>>)),
         Of("candidates", JList(<<Content(<<Of("functionCall", JNull)>>)>>)),
         JList(<<Content(<<Part(<<"q">>)>>)>>),
         JList(<<Content(<<Of("functionCall", JNull)>>)>>),
         Of("response", Parts(<<Part(<<"x">>)>>)),
         Both("candidates", JList(<<Content(<<Part(<<"q">>)>>)>>),
              "response", Parts(<<Part(<<"x">>)>>)),
         Both("response", Parts(<<Part(<<"x">>)>>),
              "candidates", JList(<<Content(<<Part(<<"q">>)>>)>>)),
         Both("candidates", JList(<<Content(<<Part(<<>>)>>)>>),
              "response", Parts(<<Part(<<"x">>)>>)),
         Both("response", Parts(<<Part(<<"x">>)>>),
              "data", Of("messages", JList(<<Msg("model", <<Part(<<"y">>)>>)>>))),
         Both("response", Parts(<<Part(<<>>)>>),
              "data", Of("messages", JList(<<Msg("model", <<Part(<<"y">>)>>)>>))),
         Data(<<>>),
         Data(<<Msg("user", <<Part(<<"q">>)>>)>>),
         Data(<<Msg("model", <<Part(<<"q">>)>>), Msg("user", <<Part(<<"x">>)>>)>>),
         Data(<<Msg("model", <<Part(<<"q">>)>>),
                Msg("model", <<Part(<<"x">>), Part(<<"y">>)>>)>>),
         Data(<<Msg("model", <<Part(<<"q">>)>>), Msg("model", <<>>)>>),
         Data(<<Msg("model", <<Part(<<"q">>)>>), Of("role", JStr(<<"model">>))>>),
         Data(<<Msg("model", <<Part(<<"q">>)>>), Msg("model", <<Part(<<>>)>>)>>),
         Data(<<Msg("model", <<Part(<<"q">>), Of("functionCall", JNull),
                                Part(<<"x">>)>>)>>)}

\* Bodies with a member of another type than the extraction expects: null,
\* a number, a string or a dict where a list or a dict should be.
MisshapenBodies ==
    LET Of(k, v) == JObj(<<k>>, <<v>>)
        Parts(v) == Of("parts", v)
        Content(v) == Of("content", Parts(v))
        Cand(v) == Of("candidates", JList(<<v>>))
        Data(v) == Of("data", Of("messages", v))
        Model(v) == JObj(<<"role", "parts">>, <<JStr(<<"model">>), v>>)
    IN  {JNull, JNum(5), JStr(<<"q">>), JList(<<JNull>>),
         Of("candidates", JNull), Of("candidates", JObj(<<>>, <<>>)),
         Of("candidates", JStr(<<"q">>)),
         Cand(JNull), Cand(Of("content", JNull)), Cand(Content(JNull)),
         Cand(Content(JNum(5))), Cand(Content(JList(<<JNull>>))),
         Cand(Content(JList(<<JStr(<<"q">>)>>))),
         Cand(Content(JList(<<Of("text", JNull)>>))),
         Cand(Content(JList(<<Of("text", JNum(5))>>))),
         Of("response", JNull), Of("response", Parts(JNum(5))),
         Of("data", JNull), Data(JNull), Data(JNum(5)), Data(JStr(<<"q">>)),
         Data(JList(<<JNull>>)), Data(JList(<<Model(JNull)>>)),
         Data(JList(<<Model(JStr(<<"q">>))>>)),
         Data(JList(<<Model(JList(<<Of("text", JNum(5))>>))>>)),
         JObj(<<"candidates", "data">>,
              <<JList(<<Content(JList(<<Of("text", JNull)>>))>>),
                Of("messages", JList(<<Model(JList(<<Of("text", JStr(<<"q">>))>>))>>))>>),
         JObj(<<"candidates", "data">>,
              <<JList(<<Content(JList(<<Of("text", JNum(0))>>))>>),
                Of("messages", JList(<<Model(JList(<<Of("text", JNum(5))>>))>>))>>)}

\* Every body against a backend that otherwise answers well; the session
\* has artifacts or has none.
ExtractResponses ==
    [create |-> {Resp(HTTP_OK, <<"id", IdA>>)},
     list |-> {Resp(HTTP_OK, <<"list", <<IdB>> >>)},
     delete |-> {Resp(HTTP_OK, <<"bad">>)},
     run |-> {Resp(HTTP_OK, <<"json", j>>) : j \in ShapedBodies \cup MisshapenBodies},
     artifacts |-> {Resp(HTTP_OK, <<"list", 0>>), Resp(HTTP_OK, <<"list", 1>>),
                    Resp(404, <<"bad">>)},
     probe |-> {Resp(HTTP_OK, <<"bad">>)}]

NextExtract == NextFor({7}, [u \in {7} |-> {""}], ExtractResponses)

SpecExtract == Init /\ [][NextExtract]_vars

\* A backend that answers a request it has carried out with 200 or with 201,
\* the body being the same, and a request it refuses with 404.
StatusResponses ==
    [create |-> {Resp(HTTP_OK, <<"id", IdA>>), Resp(201, <<"id", IdB>>),
                 Resp(404, <<"bad">>)},
     list |-> {Resp(HTTP_OK, <<"list", <<IdB>> >>), Resp(201, <<"list", <<IdB>> >>)},
     delete |-> {Resp(HTTP_OK, <<"bad">>), Resp(201, <<"bad">>), Resp(404, <<"bad">>)},
     run |-> {Resp(HTTP_OK, <<"json", TextBody>>), Resp(201, <<"json", TextBody>>),
              Resp(404, <<"bad">>)},
     artifacts |-> {Resp(HTTP_OK, <<"list", 1>>), Resp(201, <<"list", 1>>)},
     probe |-> {Resp(HTTP_OK, <<"bad">>), Resp(201, <<"bad">>)}]

NextStatus == NextFor({7}, [u \in {7} |-> {""}], StatusResponses)

SpecStatus == Init /\ [][NextStatus]_vars

----------------------------------------------------------------------------
(* The handlers as coroutines of the event loop *)

\* Updates fetched and waiting to be processed.
MaxQueue == 2

\* An update: the handler it is routed to, its user and username, and for a
\* callback query the data and the keyboard of the pressed button.
Update(op, u, name, data, pressed) ==
    [op |-> op, user |-> u, name |-> name, data |-> data, pressed |-> pressed]

\* A handler coroutine: its update, the await or line it is at, the local
\* session_id, and the calls and replies it has made so far.
Coroutine(upd, pc, session_id, pre) ==
    [upd |-> upd, pc |-> pc, session_id |-> session_id,
     calls |-> pre.calls, replies |-> pre.replies, after |-> pre.after]

\* What a suspended coroutine has done, with the dict as it is now.
Resumed(co, store) ==
    [Effect(store, <<>>, co.calls, co.replies, {}) EXCEPT !.after = co.after]

\* An Application that starts the handler of the next update while handlers
\* of earlier updates are suspended (concurrent_updates=True).
process_next_concurrently(running) == Cardinality(running) < MaxQueue

\* Application.builder().token(TELEGRAM_TOKEN).build(): concurrent_updates is
\* not set, so the update fetcher awaits the processing of one update, its
\* handler to the end, before it takes the next from the queue.
process_next(running) == running = {}

\* The Updater puts an update in the queue: a command, a message, or the
\* press of a button of a keyboard shown in a chat.  A
\* /deletesession is fetched only while its prompt still fits the chats.
fetch_update(upd) ==
    /\ phase = "polling"
    /\ Len(loop.queue) < MaxQueue
    /\ upd.op = "button_callback" =>
          /\ BagIn(upd.pressed, keyboards)
          /\ upd.data \in upd.pressed.buttons
    /\ upd.op = "delete_session" =>
          BagCardinality(keyboards)
              + Cardinality({i \in DOMAIN loop.queue :
                                loop.queue[i].op = "delete_session"})
              < MaxKeyboards
    /\ loop' = [loop EXCEPT !.queue = Append(@, upd)]
    /\ UNCHANGED <<phase, user_sessions, keyboards, asked, lastWrite, last>>
    /\ UNCHANGED apiVars

\* The update fetcher takes the next update and calls its handler.
process_update ==
    /\ phase = "polling"
    /\ loop.queue # <<>>
    /\ process_next(loop.running)
    /\ loop' = [loop EXCEPT
                   !.queue = Tail(@),
                   !.running = @ \cup {Coroutine(Head(loop.queue), "start", NoSid,
                                                 Effect(<<>>, <<>>, <<>>, <<>>, {}))}]
    /\ UNCHANGED <<phase, user_sessions, keyboards, asked, lastWrite, last>>
    /\ UNCHANGED apiVars

\* The coroutine goes on to its next await.
suspend(co, pc, session_id, pre) ==
    /\ phase = "polling"
    /\ loop' = [loop EXCEPT
                   !.running = (@ \ {co}) \cup {Coroutine(co.upd, pc, session_id, pre)}]
    /\ user_sessions' = pre.store
    /\ lastWrite' = IF pre.writes = <<>>
                    THEN lastWrite
                    ELSE [lastWrite EXCEPT ![co.upd.user] = pre.writes[Len(pre.writes)]]
    /\ UNCHANGED <<phase, keyboards, asked, last>>
    /\ UNCHANGED apiVars

\* The coroutine ends, by a return or (raised) by an exception that no
\* except clause of the handler catches.
finish(co, e, raised) ==
    /\ Applied(co.upd.op, co.upd.user, co.upd.data, co.upd.pressed, e)
    /\ loop' = [loop EXCEPT !.running = @ \ {co}, !.raised = raised]

\* handle_message up to its first await: the session check, and for a user
\* who has a binding "Get the session ID" as well.
handle_message_start(co, cresp) ==
    LET u == co.upd.user
        pre == ensure_session(user_sessions, u,
                              telegram_username(u, co.upd.name),
                              Awaited("handle_message", "create", cresp))
    IN  /\ co.upd.op = "handle_message"
        /\ co.pc = "start"
        /\ IF NeedsSession(pre.store, u)
           THEN finish(co, pre, FALSE)
           ELSE IF pre.calls = <<>>
           THEN suspend(co, "send_chat_action", pre.store[u].session_id, pre)
           ELSE suspend(co, "reply_text", NoSid, pre)

\* handle_message after the reply that announces the new session: "Get the
\* session ID", which raises KeyError when the user has no binding.
handle_message_get_session_id(co) ==
    LET u == co.upd.user
    IN  /\ co.upd.op = "handle_message"
        /\ co.pc = "reply_text"
        /\ IF u \in DOMAIN user_sessions
           THEN suspend(co, "send_chat_action", user_sessions[u].session_id,
                        Resumed(co, user_sessions))
           ELSE finish(co, Resumed(co, user_sessions), TRUE)

\* handle_message after the typing indicator, to its end.
handle_message_forward(co, rresp, aresp) ==
    LET u == co.upd.user
    IN  /\ co.upd.op = "handle_message"
        /\ co.pc = "send_chat_action"
        /\ finish(co,
                  forward(Resumed(co, user_sessions), co.session_id, u,
                          telegram_username(u, co.upd.name),
                          Awaited("handle_message", "run", rresp),
                          Awaited("handle_message", "artifacts", aresp)),
                  FALSE)

\* button_callback: `await query.answer()`
button_callback_answer(co) ==
    /\ co.upd.op = "button_callback"
    /\ co.pc = "start"
    /\ suspend(co, "answer", NoSid, Resumed(co, user_sessions))

\* button_callback after query.answer(), to its end.
button_callback_branch(co, resp) ==
    LET u == co.upd.user
    IN  /\ co.upd.op = "button_callback"
        /\ co.pc = "answer"
        /\ finish(co,
                  button_callback_effect(user_sessions, u,
                                         telegram_username(u, co.upd.name),
                                         co.upd.data,
                                         Awaited("button_callback", "delete", resp)),
                  FALSE)

\* new_session and delete_session await nothing before their last line.
command(co, resp) ==
    LET u == co.upd.user
    IN  /\ co.pc = "start"
        /\ \/ /\ co.upd.op = "new_session"
              /\ finish(co,
                        new_session_effect(user_sessions, u,
                                           telegram_username(u, co.upd.name),
                                           Awaited("new_session", "create", resp)),
                        FALSE)
           \/ /\ co.upd.op = "delete_session"
              /\ resp = NotAsked
              /\ finish(co, delete_session_effect(user_sessions, u), FALSE)

\* The updates one user may send.
Updates(u) ==
    {Update(op, u, "", <<>>, NoKeyboard) :
        op \in {"new_session", "delete_session", "handle_message"}}
    \cup {Update("button_callback", u, "", ConfirmData, k) :
            k \in {x \in BagToSet(keyboards) : ConfirmData \in x.buttons}}

\* One user, a backend that answers or refuses, and the event loop: updates
\* arrive at any time and are processed as the Application schedules them.
NextLoop ==
    \/ \E resp \in {Resp(HTTP_OK, <<"bad">>)} : main(TRUE, resp)
    \/ \E upd \in Updates(7) : fetch_update(upd)
    \/ process_update
    \/ \E co \in loop.running :
          \E cresp \in CreateAsked(FewResponses, co.upd.user) :
            handle_message_start(co, cresp)
    \/ \E co \in loop.running : handle_message_get_session_id(co)
    \/ \E co \in loop.running :
          \E rresp \in FewResponses.run :
            \E aresp \in ArtifactsAsked(FewResponses, rresp) :
              handle_message_forward(co, rresp, aresp)
    \/ \E co \in loop.running : button_callback_answer(co)
    \/ \E co \in loop.running :
          \E resp \in DeleteAsked(FewResponses, co.upd.user, co.upd.data) :
            button_callback_branch(co, resp)
    \/ \E co \in loop.running :
          \E resp \in FewResponses.create \cup {NotAsked} : command(co, resp)

SpecLoop == Init /\ [][NextLoop]_vars

----------------------------------------------------------------------------
(* The state machine of the knowledge queries *)

\* The instants the clock is read at: the start, one second later, and one
\* second less than, exactly, and one second more than the TTL later.
Instants ==
    {ClockStart + d : d \in {0, 1, cache_time - 1, cache_time, cache_time + 1}}

\* Time passes between two queries.
Tick ==
    /\ \E t \in Instants : t > now /\ now' = t
    /\ UNCHANGED <<response_cache, lastq, tasks>>
    /\ UNCHANGED botVars

\* One call of a method, from its first line to its return: the tools are
\* plain functions, called one at a time.  fn is the method, input its
\* arguments, e what the call did; found is the entry the cache held under
\* the key when the call began.
Asked(fn, input, e) ==
    /\ response_cache' = e.cache
    /\ lastq' = [fn |-> fn, input |-> input, key |-> e.key, hit |-> e.hit,
                 generated |-> e.generated, result |-> e.result, at |-> now,
                 found |-> IF e.key \in DOMAIN response_cache
                           THEN {response_cache[e.key]} ELSE {}]
    /\ now' = now
    /\ UNCHANGED tasks
    /\ UNCHANGED botVars

get_religious_information(religion, category, specific_query, g) ==
    Asked("get_religious_information", <<religion, category, specific_query>>,
          get_religious_information_effect(response_cache, now, religion,
                                           category, specific_query, g))

get_philosophical_perspective(philosophy, topic, g) ==
    Asked("get_philosophical_perspective", <<philosophy, topic>>,
          get_philosophical_perspective_effect(response_cache, now,
                                               philosophy, topic, g))

compare_religions(religion1, religion2, aspect, g) ==
    Asked("compare_religions", <<religion1, religion2, aspect>>,
          compare_religions_effect(response_cache, now, religion1, religion2,
                                   aspect, g))

get_daily_spiritual_insight(tradition, theme, g) ==
    Asked("get_daily_spiritual_insight", <<tradition, theme>>,
          get_daily_spiritual_insight_effect(response_cache, now, tradition,
                                             theme, g))

packaged_get_daily_spiritual_insight(tradition, theme, g) ==
    Asked("packaged_get_daily_spiritual_insight", <<tradition, theme>>,
          packaged_get_daily_spiritual_insight_effect(response_cache, now,
                                                      tradition, theme, g))

get_meditation_guide(tradition, duration, focus, g) ==
    Asked("get_meditation_guide", <<tradition, str(duration), focus>>,
          get_meditation_guide_effect(response_cache, now, tradition, duration,
                                      focus, g))

get_interfaith_dialogue(topic, religions, g) ==
    Asked("get_interfaith_dialogue", <<topic, religions>>,
          get_interfaith_dialogue_effect(response_cache, now, topic,
                                         religions, g))

agent_get_interfaith_dialogue(topic, religions, g) ==
    Asked("agent_get_interfaith_dialogue", <<topic, religions>>,
          agent_get_interfaith_dialogue_effect(response_cache, now, topic,
                                               religions, g))

get_spiritual_practice_guide(practice, tradition, level, g) ==
    Asked("get_spiritual_practice_guide", <<practice, tradition, level>>,
          get_spiritual_practice_guide_effect(response_cache, now, practice,
                                              tradition, level, g))

agent_get_meditation_guide(tradition, duration, focus, g) ==
    Asked("agent_get_meditation_guide", <<tradition, str(duration), focus>>,
          agent_get_meditation_guide_effect(response_cache, now, tradition,
                                            duration, focus, g))

agent_get_spiritual_practice_guide(practice, tradition, level, g) ==
    Asked("agent_get_spiritual_practice_guide", <<practice, tradition, level>>,
          agent_get_spiritual_practice_guide_effect(response_cache, now,
                                                    practice, tradition, level, g))

\* Queries about one religion, with and without a question, and one
\* practice guide, as time passes.
NextCache ==
    \/ Tick
    \/ \E religion \in {<<"Islam">>, <<"atlantis">>} :
          \E specific_query \in {<<>>, <<"q">>} : \E g \in Generations :
            get_religious_information(religion, <<"general">>, specific_query, g)
    \/ \E g \in Generations :
          get_spiritual_practice_guide(<<"Yoga">>, <<>>, <<"Expert">>, g)

SpecCache == Init /\ [][NextCache]_vars

\* Comparisons of two religions, asked in both orders, and of an unknown one.
NextCompare ==
    \/ Tick
    \/ \E pair \in {<< <<"Islam">>, <<"hinduism">> >>,
                     << <<"hinduism">>, <<"Islam">> >>,
                     << <<"atlantis">>, <<"hinduism">> >>} :
          \E g \in Generations :
            compare_religions(pair[1], pair[2], <<"general">>, g)

SpecCompare == Init /\ [][NextCompare]_vars

\* Dialogues on one topic between the same religions, listed in different
\* orders, asked of the packaged method and of the tool of agent.py; and a
\* list that leaves one valid religion.
Participants ==
    {<< <<"islam">>, <<"Hinduism">> >>, << <<"hinduism">>, <<"islam">> >>,
     << <<"atlantis">>, <<"islam">> >>}
NextInterfaith ==
    \/ Tick
    \/ \E religions \in Participants : \E g \in Generations :
          get_interfaith_dialogue(<<"q">>, religions, g)
    \/ \E religions \in Participants : \E g \in Generations :
          agent_get_interfaith_dialogue(<<"q">>, religions, g)

SpecInterfaith == Init /\ [][NextInterfaith]_vars

\* One instant, one content: queries of every caching method of the
\* packaged module, with arguments in lower case and valid as they are
\* (so that different arguments are different queries), with and without a
\* category or tradition, and with traditions and practice names that
\* contain a hyphen.
OneContent == {Generated(1)}
NextKeys ==
    \/ \E category \in {<<"general">>, <<>>} : \E g \in OneContent :
          get_religious_information(<<"islam">>, category, <<>>, g)
    \/ \E g \in OneContent :
          get_philosophical_perspective(<<"stoicism">>, <<>>, g)
    \/ \E g \in OneContent :
          compare_religions(<<"islam">>, <<"hinduism">>, <<"general">>, g)
    \/ \E tradition \in {<<>>, <<"general">>, <<"islam">>} : \E g \in OneContent :
          get_meditation_guide(tradition, 10, <<"q">>, g)
    \/ \E g \in OneContent :
          get_interfaith_dialogue(<<"q">>, << <<"islam">>, <<"hinduism">> >>, g)
    \/ \E pt \in {<< <<"yoga">>, <<"beginner", "-", "q">> >>,
                   << <<"yoga", "-", "beginner">>, <<"q">> >>,
                   << <<"yoga">>, <<>> >>} :
          \E g \in OneContent :
            get_spiritual_practice_guide(pt[1], pt[2], <<"beginner">>, g)

SpecKeys == Init /\ [][NextKeys]_vars

\* Free texts around the length of the key prefix: two that are one
\* character longer and differ in that last character only, one that differs
\* from them in the last character of the prefix, and none.
Chars(n) == [i \in 1..n |-> "q"]
FreeTexts ==
    {Chars(KeyPrefix) \o <<"x">>, Chars(KeyPrefix) \o <<"y">>,
     Chars(KeyPrefix - 1) \o <<"x", "q">>, <<>>}

\* One instant, one content: the methods that put a free text in the key.
NextFreeText ==
    \/ \E specific_query \in FreeTexts : \E g \in OneContent :
          get_religious_information(<<"islam">>, <<"general">>, specific_query, g)
    \/ \E topic \in FreeTexts : \E g \in OneContent :
          get_philosophical_perspective(<<"stoicism">>, topic, g)
    \/ \E topic \in FreeTexts : \E g \in OneContent :
          get_interfaith_dialogue(topic, << <<"islam">>, <<"hinduism">> >>, g)

SpecFreeText == Init /\ [][NextFreeText]_vars

\* The daily insight of both modules, with and without a tradition, as the
\* date changes.
NextDaily ==
    \/ Tick
    \/ \E tradition \in {<<>>, <<"islam">>} : \E g \in Generations :
          get_daily_spiritual_insight(tradition, <<>>, g)
    \/ \E tradition \in {<<>>, <<"islam">>} : \E g \in Generations :
          packaged_get_daily_spiritual_insight(tradition, <<>>, g)

SpecDaily == Init /\ [][NextDaily]_vars

\* Meditation guides of durations at and beyond both ends of 1..60, asked
\* of the packaged module and through the tool of src/agent.py; the
\* generation gives a text or fails.
NextMeditation ==
    \/ \E duration \in {0, 1, 30, 60, 61} :
          \E g \in {Generated(1), GenerationFails} :
            get_meditation_guide(<<>>, duration, <<"mindfulness">>, g)
    \/ \E duration \in {0, 1, 30, 60, 61} :
          \E g \in {Generated(1), GenerationFails} :
            agent_get_meditation_guide(<<>>, duration, <<"mindfulness">>, g)

SpecMeditation == Init /\ [][NextMeditation]_vars

\* Queries with known and unknown identifiers, dialogues with one, two and
\* no valid participant, practice guides of a valid and an invalid level;
\* the generation gives a text or fails.
NextValidation ==
    \/ \E religion \in {<<"Islam">>, <<"atlantis">>} :
          \E g \in {Generated(1), GenerationFails} :
            get_religious_information(religion, <<"general">>, <<>>, g)
    \/ \E philosophy \in {<<"stoicism">>, <<"atlantis">>} :
          \E g \in {Generated(1), GenerationFails} :
            get_philosophical_perspective(philosophy, <<>>, g)
    \/ \E pair \in {<< <<"islam">>, <<"hinduism">> >>,
                     << <<"islam">>, <<"atlantis">> >>,
                     << <<"atlantis">>, <<"islam">> >>} :
          \E g \in {Generated(1), GenerationFails} :
            compare_religions(pair[1], pair[2], <<"general">>, g)
    \/ \E religions \in {<< <<"atlantis">> >>, << <<"atlantis">>, <<"islam">> >>,
                          << <<"islam">>, <<"hinduism">> >>} :
          \E g \in {Generated(1), GenerationFails} :
            \/ get_interfaith_dialogue(<<"ethics">>, religions, g)
            \/ agent_get_interfaith_dialogue(<<"ethics">>, religions, g)
    \/ \E level \in {<<"beginner">>, <<"expert">>} :
          \E g \in {Generated(1), GenerationFails} :
            \/ get_spiritual_practice_guide(<<"meditation">>, <<>>, level, g)
            \/ agent_get_spiritual_practice_guide(<<"meditation">>, <<>>, level, g)

SpecValidation == Init /\ [][NextValidation]_vars

\* get_information about one religion, written in two cases, with
\* categories and questions of which some differ beyond the first 50
\* characters only, and one category is another followed by a question.
SlotQueries ==
    {<< <<"general">>, <<"q">> >>,
     << <<"general", "-", "q">>, <<>> >>,
     << <<"rituals">>, <<"q">> >>,
     << <<"general">>, <<>> >>,
     << <<"general">>, Chars(KeyPrefix) \o <<"x">> >>,
     << <<"general">>, Chars(KeyPrefix) \o <<"y">> >>}

NextSlots ==
    \E religion \in {<<"islam">>, <<"Islam">>} : \E cq \in SlotQueries :
        \E g \in {Generated(1), Generated(2)} :
            get_religious_information(religion, cq[1], cq[2], g)

SpecSlots == Init /\ [][NextSlots]_vars

\* Thread w calls get_religious_information and runs up to its return (a
\* validation error or a fresh entry) or into generate_content, where it
\* waits for the Generation Service; the other thread runs meanwhile.
lookup_then_generate(w, religion, category, specific_query) ==
    LET key == religion_key(lower(religion), category, specific_query)
        miss == /\ religion # <<>>
                /\ lower(religion) \in RELIGIONS
                /\ ~Fresh(response_cache, key, now)
    IN  /\ tasks[w].pc = "idle"
        /\ tasks' = [tasks EXCEPT ![w] =
                        [pc |-> IF miss THEN "generating" ELSE "idle",
                         key |-> IF religion # <<>> /\ lower(religion) \in RELIGIONS
                                 THEN key ELSE NoKey,
                         args |-> <<lower(religion), category, specific_query>>]]
        /\ UNCHANGED <<response_cache, now, lastq>>
        /\ UNCHANGED botVars

\* generate_content returns to thread w or raises; the thread stores the
\* result, if any, and returns.
generated_then_store(w, g) ==
    /\ tasks[w].pc = "generating"
    /\ response_cache' =
          IF g.raises
          THEN response_cache
          ELSE DictSet(response_cache, tasks[w].key,
                       CacheEntry(Result(tasks[w].args, g.text), now))
    /\ tasks' = [tasks EXCEPT ![w].pc = "idle"]
    /\ UNCHANGED <<now, lastq>>
    /\ UNCHANGED botVars

\* Two threads asking about one religion, with and without a question.
NextThreads ==
    \/ Tick
    \/ \E w \in Threads : \E religion \in {<<"Islam">>, <<"atlantis">>} :
          \E specific_query \in {<<>>, <<"q">>} :
            lookup_then_generate(w, religion, <<"general">>, specific_query)
    \/ \E w \in Threads : \E g \in Generations : generated_then_store(w, g)

SpecThreads == Init /\ [][NextThreads]_vars

----------------------------------------------------------------------------
(* Properties *)

\* The positions in the last update's call log of the calls of one operation.
CallsOf(l, op) == {i \in DOMAIN l.calls : l.calls[i].op = op}
IsConfirm(l) == l.op = "button_callback" /\ l.data = ConfirmData
IsSelect(l) == l.op = "button_callback" /\ IsSelectData(l.data)
RemoteOps == {"create", "list", "delete", "run", "artifacts"}
\* The call raised or was answered with a status other than 200.
Refused(resp) == resp.err \/ resp.status # HTTP_OK

\* C1: the remote delete call is issued only by the handling of a confirm
\* button, pressed by a user who has been shown a delete confirmation and who
\* has a binding at that moment; the delete command, a cancel and a confirm
\* without binding issue none.
C1_DeleteOnlyOnConfirm ==
    /\ \A i \in CallsOf(last, "delete") :
          /\ IsConfirm(last)
          /\ last.user \in asked
          /\ last.calls[i].before # {}
    /\ last.op = "delete_session" => last.calls = <<>>
    /\ last.op = "button_callback" /\ last.data = CancelData => last.calls = <<>>
    /\ IsConfirm(last) /\ last.replies = << <<"no_active">> >> => last.calls = <<>>

\* A confirm has just issued the remote delete call.
C1_Witness == IsConfirm(last) /\ CallsOf(last, "delete") # {}

\* C2: a confirm handled for a user with a binding issues one delete call;
\* when it answers 200 the binding is gone, and when it answers another
\* status or raises, the binding is what it was.
C2_ConfirmedDelete ==
    [][(IsConfirm(last') /\ last'.user \in DOMAIN user_sessions) =>
          LET u == last'.user
              c == last'.calls[1]
          IN  /\ Len(last'.calls) = 1
              /\ c.op = "delete"
              /\ IF Refused(c.resp)
                 THEN BindingsOf(user_sessions', u) = BindingsOf(user_sessions, u)
                 ELSE u \notin DOMAIN user_sessions']_vars

\* A confirmed delete has failed and the user is still bound.
C2_Witness ==
    /\ IsConfirm(last)
    /\ last.replies \in {<< <<"delete_failed">> >>, << <<"went_wrong">> >>}
    /\ last.user \in DOMAIN user_sessions

\* A confirm pressed by a user without binding (an older confirmation, after
\* the session was deleted) has been handled.
ConfirmWithoutBinding ==
    IsConfirm(last) /\ last.replies = << <<"no_active">> >>

\* C3: a message of a user without binding issues exactly one create call,
\* first.  When that call answers 200 with a JSON object the user is bound to
\* the id the response carries and the /run call follows with that id;
\* otherwise the user stays without binding, the one reply is an error, and
\* no /run call is issued.
C3_AutoCreate ==
    [][(last'.op = "handle_message" /\ last'.user \notin DOMAIN user_sessions) =>
          LET u == last'.user
              cs == last'.calls
          IN  /\ CallsOf(last', "create") = {1}
              /\ IF Failed(cs[1].resp)
                 THEN /\ u \notin DOMAIN user_sessions'
                      /\ CallsOf(last', "run") = {}
                      /\ last'.replies \in {<< <<"auto_create_failed">> >>,
                                             << <<"went_wrong_session">> >>}
                 ELSE /\ u \in DOMAIN user_sessions'
                      /\ user_sessions'[u].session_id = JsonGetId(cs[1].resp.json)
                      /\ CallsOf(last', "run") = {2}
                      /\ cs[2].sid = JsonGetId(cs[1].resp.json)]_vars

\* A message has created a session automatically and has been forwarded.
C3_Witness ==
    /\ last.op = "handle_message"
    /\ CallsOf(last, "create") = {1}
    /\ CallsOf(last, "run") = {2}
    /\ last.user \in DOMAIN user_sessions

\* C4: when a message follows directly a message of the same user that was
\* forwarded to /run, it issues no create call and its /run call carries the
\* session id of the first one's, whether that /run call succeeded or not.
C4_SecondMessageReuses ==
    [][(/\ last.op = "handle_message"
        /\ last'.op = "handle_message"
        /\ last'.user = last.user
        /\ CallsOf(last, "run") # {}) =>
          /\ CallsOf(last', "create") = {}
          /\ \A i \in CallsOf(last, "run") :
                \E j \in CallsOf(last', "run") :
                  last'.calls[j].sid = last.calls[i].sid]_vars

\* A message has been forwarded without create call right after a message of
\* the same user whose /run call failed.
C4_Witness ==
    /\ last.op = "handle_message"
    /\ last.afterFailedRun
    /\ CallsOf(last, "create") = {}
    /\ CallsOf(last, "run") # {}

\* C5: the dict holds at most one binding per user, and it is the one the
\* last write for that user left: the binding of the last create or select,
\* none after a delete and before any write.
C5_LastWriteWins ==
    \A u \in Users :
        /\ Cardinality(BindingsOf(user_sessions, u)) <= 1
        /\ BindingsOf(user_sessions, u) = lastWrite[u]

\* An explicit new session has replaced a binding by a different one.
C5_Witness ==
    /\ last.op = "new_session"
    /\ last.replies = << <<"created">> >>
    /\ last.calls[1].before # {}
    /\ last.calls[1].before # BindingsOf(user_sessions, last.user)
    /\ lastWrite[last.user] = BindingsOf(user_sessions, last.user)

\* C6: pressing the button of a listed session leaves the user bound to that
\* session's id, changes no other user's binding and issues no remote call.
\* The session a button stands for is the one whose id follows
\* "select_session:" in its callback data.
C6_SelectBindsSelected ==
    [][IsSelect(last') =>
          LET u == last'.user
          IN  /\ u \in DOMAIN user_sessions'
              /\ SelectData(user_sessions'[u].session_id) = last'.data
              /\ \A v \in Users \ {u} :
                    BindingsOf(user_sessions', v) = BindingsOf(user_sessions, v)
              /\ last'.calls = <<>>]_vars

\* C7: handling a list command leaves the dict as it was, whatever the list
\* call returns.
C7_ListIsPure ==
    [][last'.op = "list_sessions" => user_sessions' = user_sessions]_vars

\* A list command has shown a menu of sessions to a bound user.
C7_Witness ==
    /\ last.op = "list_sessions"
    /\ last.replies = << <<"menu">> >>
    /\ last.user \in DOMAIN user_sessions

\* C8: after an explicit new session whose create call failed, and after a
\* message whose /run call or artifact query failed, the user's binding is
\* the one held when that call was issued.
C8_FailedCallKeepsBinding ==
    \A i \in DOMAIN last.calls :
        LET c == last.calls[i]
        IN  (/\ Failed(c.resp)
             /\ \/ last.op = "new_session" /\ c.op = "create"
                \/ last.op = "handle_message" /\ c.op \in {"run", "artifacts"})
            => BindingsOf(user_sessions, last.user) = c.before

\* A message has created its session and its /run call has failed; the new
\* binding is kept.
C8_Witness ==
    /\ last.op = "handle_message"
    /\ Len(last.calls) = 2
    /\ last.calls[1].op = "create"
    /\ last.calls[2].op = "run"
    /\ Failed(last.calls[2].resp)
    /\ last.user \in DOMAIN user_sessions

\* C9 as stated: when /run reports that the bound session does not exist
\* (404), the user is left without binding.
C9_AbsenceRemovesBinding ==
    \A i \in CallsOf(last, "run") :
        (last.op = "handle_message" /\ last.calls[i].resp.status = 404)
            => last.user \notin DOMAIN user_sessions

\* C9, amended: a binding disappears only in the handling of a confirm whose
\* delete call answered 200; a 404 from /run, the artifact query or the
\* delete call leaves the binding as it was, and the message that follows a
\* 404 of /run issues no create call.
C9_OnlyConfirmedDeleteRemoves ==
    /\ [][\A u \in Users :
            (u \in DOMAIN user_sessions /\ u \notin DOMAIN user_sessions') =>
                /\ IsConfirm(last')
                /\ last'.user = u
                /\ \E i \in CallsOf(last', "delete") :
                      ~Refused(last'.calls[i].resp)]_vars
    /\ [](\A i \in DOMAIN last.calls :
            (last.calls[i].op \in {"run", "artifacts", "delete"}
                /\ last.calls[i].resp.status = 404)
            => /\ last.user \in DOMAIN user_sessions
               /\ BindingsOf(user_sessions, last.user) = last.calls[i].before)
    /\ [][(/\ last.op = "handle_message"
            /\ \E i \in CallsOf(last, "run") : last.calls[i].resp.status = 404
            /\ last'.op = "handle_message"
            /\ last'.user = last.user) =>
              CallsOf(last', "create") = {}]_vars

\* /run has answered 404 for the bound session and the user is still bound.
C9_Witness ==
    /\ last.op = "handle_message"
    /\ \E i \in CallsOf(last, "run") : last.calls[i].resp.status = 404
    /\ last.user \in DOMAIN user_sessions

\* C10: one handled update issues each remote operation at most once, and
\* each call goes on the wire once, also when it fails.
C10_SingleAttempt ==
    /\ \A op \in RemoteOps : Cardinality(CallsOf(last, op)) <= 1
    /\ \A i \in DOMAIN last.calls : last.calls[i].attempts = 1

\* A remote call has failed on the network.
C10_Witness ==
    /\ last.op = "handle_message"
    /\ \E i \in DOMAIN last.calls : last.calls[i].resp.err

\* C11: no handler is left waiting for a backend that never answers: every
\* call to a silent backend ends with a timeout, after which the handler
\* replies with an error (and the startup code exits).
C11_BoundedWait ==
    /\ ~Hung
    /\ \A i \in DOMAIN last.calls :
          last.calls[i].resp = TimedOut =>
              IF last.op = "main"
              THEN phase = "exited"
              ELSE /\ last.replies # <<>>
                   /\ last.replies[Len(last.replies)] = <<"went_wrong">>

\* C12: in the handling of a message, a create call comes before the /run
\* call; the /run call is issued with the user bound and carries the bound
\* session id; an artifact query follows a /run call that answered 200 with
\* a body; and the answer is sent after the artifact query.
C12_FixedOrder ==
    last.op = "handle_message" =>
        LET cs == last.calls
        IN  /\ \A i \in CallsOf(last, "create") :
                  \A j \in CallsOf(last, "run") : i < j
            /\ \A j \in CallsOf(last, "run") :
                  /\ cs[j].before # {}
                  /\ \A b \in cs[j].before : b.session_id = cs[j].sid
            /\ \A k \in CallsOf(last, "artifacts") :
                  \E j \in CallsOf(last, "run") :
                      j < k /\ ~Failed(cs[j].resp)
            /\ \A r \in DOMAIN last.replies :
                  last.replies[r][1] = "answer" =>
                      \E k \in CallsOf(last, "artifacts") : k <= last.after[r]

\* A message has created its session, told the user so, been forwarded, had
\* its artifacts queried and been answered.
C12_Witness ==
    /\ last.op = "handle_message"
    /\ Len(last.calls) = 3
    /\ last.calls[1].op = "create"
    /\ last.calls[2].op = "run"
    /\ last.calls[3].op = "artifacts"
    /\ Len(last.replies) = 2
    /\ last.replies[2][1] = "answer"
    /\ last.after = <<1, 3>>

\* C13: a query that builds a key returns the cached data exactly when the
\* cache held an entry under the key whose age, at the time of the query,
\* was less than 86400 seconds; with no entry, or an entry of age 86400 or
\* more, it invokes the Generation Service instead.
C13_HitIffFresh ==
    lastq.key # NoKey =>
        /\ lastq.hit <=> \E e \in lastq.found : lastq.at - e.timestamp < 86400
        /\ lastq.hit => /\ lastq.generated = 0
                        /\ \A e \in lastq.found : lastq.result = e.data
        /\ ~lastq.hit => lastq.generated = 1

\* A query has found an entry exactly 86400 seconds old and has not used it.
C13_Witness ==
    /\ lastq.key # NoKey
    /\ \E e \in lastq.found : lastq.at - e.timestamp = 86400
    /\ ~lastq.hit
    /\ lastq.generated = 1

\* C14: a query whose key has an entry younger than the TTL returns that
\* entry's data, invokes no generation and leaves the cache as it is; a
\* query whose key has an entry as old as the TTL or older (or none)
\* invokes the generation once and, when that returns, leaves under the key
\* the new result with the time of the query.
C14_RoundTrip ==
    [][(now' = now /\ lastq'.key # NoKey) =>
          LET k == lastq'.key
          IN  IF k \in DOMAIN response_cache
                  /\ now - response_cache[k].timestamp < cache_time
              THEN /\ lastq'.result = response_cache[k].data
                   /\ lastq'.generated = 0
                   /\ response_cache' = response_cache
              ELSE /\ lastq'.generated = 1
                   /\ lastq'.result.status = "ok" =>
                         /\ k \in DOMAIN response_cache'
                         /\ response_cache'[k] = CacheEntry(lastq'.result, now)
                   /\ \A j \in DOMAIN response_cache \ {k} :
                         /\ j \in DOMAIN response_cache'
                         /\ response_cache'[j] = response_cache[j]]_vars

\* A query has found its key's entry a day old, has generated another
\* content, and the cache now holds that content with the new time.
C14_Witness ==
    /\ lastq.key \in DOMAIN response_cache
    /\ \E e \in lastq.found :
          /\ lastq.at - e.timestamp >= cache_time
          /\ e.data.content # lastq.result.content
    /\ lastq.generated = 1
    /\ lastq.result.status = "ok"
    /\ response_cache[lastq.key] = CacheEntry(lastq.result, lastq.at)

\* C15: at no time are two threads both waiting for the Generation Service
\* with the same cache key: of two concurrent queries with one key, at most
\* one invokes the generation.
C15_OneGenerationPerKey ==
    \A v \in Threads : \A w \in Threads \ {v} :
        (tasks[v].pc = "generating" /\ tasks[w].pc = "generating")
            => tasks[v].key # tasks[w].key

\* C16: when a comparison of two valid religions directly follows the
\* comparison of the same two in the other order, on the same aspect, it
\* builds the same key, and when the first stored its result less than the
\* TTL ago the second returns that result and invokes no generation.
C16_CompareOrderIndependent ==
    [][(/\ now' = now
        /\ lastq.fn = "compare_religions"
        /\ lastq'.fn = "compare_religions"
        /\ lastq.key # NoKey
        /\ lastq'.key # NoKey
        /\ lastq'.input = <<lastq.input[2], lastq.input[1], lastq.input[3]>>) =>
          /\ lastq'.key = lastq.key
          /\ (/\ lastq.generated = 1
              /\ lastq.result.status = "ok"
              /\ now - lastq.at < cache_time) =>
                /\ lastq'.generated = 0
                /\ lastq'.result = lastq.result]_vars

\* The lists a and b hold the same religions, each as often, in any order
\* and in any case.
Permutation(a, b) ==
    /\ Len(a) = Len(b)
    /\ \E f \in [DOMAIN a -> DOMAIN b] :
          /\ \A i \in DOMAIN a : \A j \in DOMAIN a : f[i] = f[j] => i = j
          /\ \A i \in DOMAIN a : lower(a[i]) = lower(b[f[i]])
InterfaithFns == {"get_interfaith_dialogue", "agent_get_interfaith_dialogue"}

\* C17: when a dialogue on a topic directly follows, less than the TTL
\* later, a dialogue of the same implementation on the same topic that was
\* generated with success and whose list of valid religions is a
\* permutation of its own, both build the same key and the second invokes
\* no generation and returns what the first did.
C17_InterfaithOrderIndependent ==
    [][(/\ now' = now
        /\ lastq.fn \in InterfaithFns
        /\ lastq'.fn = lastq.fn
        /\ lastq.generated = 1
        /\ lastq.result.status = "ok"
        /\ now - lastq.at < cache_time
        /\ lastq'.input[1] = lastq.input[1]
        /\ \A i \in DOMAIN lastq.input[2] : lower(lastq.input[2][i]) \in RELIGIONS
        /\ Permutation(lastq.input[2], lastq'.input[2])) =>
          /\ lastq'.key # NoKey
          /\ lastq'.key = lastq.key
          /\ lastq'.generated = 0
          /\ lastq'.result = lastq.result]_vars

\* C18: two queries that follow one another and differ in the method or in
\* an argument (identifier or category; no free-text question is given)
\* build different keys.
C18_DistinctTriples ==
    [][(/\ lastq.key # NoKey
        /\ lastq'.key # NoKey
        /\ <<lastq.fn, lastq.input>> # <<lastq'.fn, lastq'.input>>) =>
          lastq'.key # lastq.key]_vars

\* Where the arguments of a method hold the free text.
FreeTextAt(fn) ==
    CASE fn = "get_religious_information" -> 3
      [] fn = "get_philosophical_perspective" -> 2
      [] fn = "get_interfaith_dialogue" -> 1
FreeTextOf(q) == q.input[FreeTextAt(q.fn)]
\* The texts a and b have the same characters at the first 50 positions.
AgreeOnPrefix(a, b) ==
    \A i \in 1..50 : /\ i <= Len(a) <=> i <= Len(b)
                     /\ i <= Len(a) => a[i] = b[i]

\* C19: of two queries of one method that follow one another with the same
\* arguments but for the free text, the second builds the key of the first
\* and is answered from the first's entry when the two texts agree on
\* their first 50 characters, and builds another key when they do not.
C19_FreeTextPrefix ==
    [][(/\ lastq.key # NoKey
        /\ lastq'.key # NoKey
        /\ lastq'.fn = lastq.fn
        /\ \A i \in DOMAIN lastq.input \ {FreeTextAt(lastq.fn)} :
              lastq'.input[i] = lastq.input[i]) =>
          IF AgreeOnPrefix(FreeTextOf(lastq), FreeTextOf(lastq'))
          THEN /\ lastq'.key = lastq.key
               /\ lastq'.hit
               /\ lastq'.result = lastq.result
          ELSE lastq'.key # lastq.key]_vars

\* A query with a text of 51 characters has been answered with the result
\* of another text that has the same first 50.
C19_Witness ==
    /\ lastq.key # NoKey
    /\ Len(FreeTextOf(lastq)) = 51
    /\ lastq.hit
    /\ lastq.result.args[FreeTextAt(lastq.fn)] # FreeTextOf(lastq)

\* The methods that give the daily insight.
DailyFns == {"get_daily_spiritual_insight", "packaged_get_daily_spiritual_insight"}

\* C20: a daily insight asked for on another calendar date than the previous
\* one, of the same method with the same tradition and theme, is not answered
\* from the cache but generated, and the key it builds, if it builds one, is
\* not the key of the previous one; and whenever a daily insight is answered
\* from the cache, the entry was stored on the date of the query.
C20_DailyKeyDated ==
    [][lastq'.fn \in DailyFns =>
          /\ lastq'.hit =>
                \A entry \in lastq'.found :
                    strftime(entry.timestamp) = strftime(lastq'.at)
          /\ (/\ lastq.fn = lastq'.fn
              /\ lastq.input = lastq'.input
              /\ strftime(lastq.at) # strftime(lastq'.at)) =>
                /\ ~lastq'.hit
                /\ lastq'.generated = 1
                /\ lastq'.key # NoKey => lastq'.key # lastq.key]_vars

\* An insight was stored in the last second of a day, and the same insight
\* asked for one second later, on the next date, has been generated anew.
C20_Witness ==
    /\ lastq.fn = "get_daily_spiritual_insight"
    /\ lastq.at = ClockStart + 1
    /\ ~lastq.hit
    /\ lastq.generated = 1
    /\ LET stored == daily_key(strftime(ClockStart), lastq.input[1],
                               lastq.input[2])
       IN  /\ stored \in DOMAIN response_cache
           /\ response_cache[stored].timestamp = ClockStart
           /\ response_cache[stored].data.status = "ok"

\* The body of the /run response of the last update, when the call gave a
\* 200 response with a JSON body.
RunBodies(l) ==
    {l.calls[i].resp.json[2] : i \in {j \in CallsOf(l, "run") :
        /\ ~l.calls[j].resp.err
        /\ l.calls[j].resp.status = HTTP_OK
        /\ l.calls[j].resp.json # <<"bad">>}}
\* The texts the last update gave to reply_text as the model's answer.
Answers(l) ==
    {l.replies[r][2] : r \in {k \in DOMAIN l.replies : l.replies[k][1] = "answer"}}

\* C21: a message whose /run call gave a 200 response with a JSON body is
\* answered with a text string, the extracted one or the fallback, unless
\* the artifact query raised.
C21_ExtractorTotal ==
    (/\ last.op = "handle_message"
     /\ RunBodies(last) # {}
     /\ \A a \in CallsOf(last, "artifacts") : ~Raised(last.calls[a].resp)) =>
        /\ Answers(last) # {}
        /\ \A answer \in Answers(last) : answer.kind = "str"

\* The member of a body at a path of member names and first items ("0"),
\* null where the path leaves the body.
RECURSIVE At(_, _)
At(v, path) ==
    IF path = <<>> THEN v
    ELSE IF Head(path) = "0"
    THEN IF v.kind = "list" /\ v.items # <<>>
         THEN At(v.items[1], Tail(path)) ELSE JNull
    ELSE IF v.kind = "obj" /\ In(Head(path), v)
    THEN At(Member(v, Head(path)), Tail(path)) ELSE JNull
\* The text at a path, empty when there is no string there.
TextAt(v, path) == IF At(v, path).kind = "str" THEN At(v, path).chars ELSE <<>>
\* The texts of the parts that have one, joined in order.
RECURSIVE JoinedTexts(_)
JoinedTexts(parts) ==
    IF parts = <<>> THEN <<>>
    ELSE (IF Head(parts).kind = "obj" THEN TextAt(Head(parts), <<"text">>) ELSE <<>>)
            \o JoinedTexts(Tail(parts))
\* The positions of the messages of role "model" in data.messages.
ModelMessages(body) ==
    LET messages == At(body, <<"data", "messages">>)
    IN  IF messages.kind # "list" THEN {}
        ELSE {i \in DOMAIN messages.items :
                /\ messages.items[i].kind = "obj"
                /\ At(messages.items[i], <<"role">>) = JStr(<<"model">>)}
\* The text of the last message of role "model".
LastModelText(body) ==
    LET models == ModelMessages(body)
        last_model == CHOOSE i \in models : \A j \in models : j <= i
        parts == At(At(body, <<"data", "messages">>).items[last_model], <<"parts">>)
    IN  IF models = {} \/ parts.kind # "list" THEN <<>> ELSE JoinedTexts(parts.items)
\* The text of each schema in the order of the specification.
SchemaTexts(body) ==
    <<TextAt(body, <<"candidates", "0", "content", "parts", "0", "text">>),
      TextAt(body, <<"0", "content", "parts", "0", "text">>),
      TextAt(body, <<"response", "parts", "0", "text">>),
      LastModelText(body)>>
\* The text of the earliest schema that has one, or the fallback.
EarliestText(body) ==
    LET texts == SchemaTexts(body)
        with_text == {i \in DOMAIN texts : texts[i] # <<>>}
    IN  IF with_text = {} THEN Fallback
        ELSE texts[CHOOSE i \in with_text : \A j \in with_text : i <= j]

\* C22: the text string a message is answered with is the text of the
\* earliest of the schemas candidates, list, response, data.messages that
\* has a non-empty text in the body of the /run response, the notice apart.
C22_SchemaOrder ==
    \A body \in RunBodies(last) : \A answer \in Answers(last) :
        answer.kind = "str" =>
            answer.chars \in {EarliestText(body), EarliestText(body) \o Notice}

\* A body with a text under candidates and another under response has been
\* answered with the text under candidates.
C22_Witness ==
    \E body \in RunBodies(last) :
        /\ SchemaTexts(body)[1] # <<>>
        /\ SchemaTexts(body)[3] # <<>>
        /\ SchemaTexts(body)[3] # SchemaTexts(body)[1]
        /\ JStr(SchemaTexts(body)[1]) \in Answers(last)

\* C23: when no earlier schema has a text and data.messages holds messages
\* of role "model", the answer is the joined texts of the parts of the last
\* of them, and the fallback when that message has none, whatever the
\* model messages before it hold.
C23_LastModelMessage ==
    \A body \in RunBodies(last) : \A answer \in Answers(last) :
        (/\ answer.kind = "str"
         /\ \A i \in 1..3 : SchemaTexts(body)[i] = <<>>
         /\ ModelMessages(body) # {}) =>
            LET text == IF LastModelText(body) = <<>> THEN Fallback
                        ELSE LastModelText(body)
            IN  answer.chars \in {text, text \o Notice}

\* A body with two model messages, the first with a text and the last
\* without, has been answered with the fallback.
C23_Witness ==
    \E body \in RunBodies(last) :
        /\ Cardinality(ModelMessages(body)) = 2
        /\ LastModelText(body) = <<>>
        /\ \E i \in ModelMessages(body) :
              TextAt(At(body, <<"data", "messages">>).items[i],
                     <<"parts", "0", "text">>) # <<>>
        /\ JStr(Fallback) \in Answers(last)

\* C24: when the text extraction gave a text string and the artifact query
\* did not raise, the answer is that text followed by the notice if the
\* query gave a 200 response with a non-empty list, and that text alone
\* otherwise.
C24_NoticeAppended ==
    \A body \in RunBodies(last) : \A a \in CallsOf(last, "artifacts") :
        LET artifacts_response == last.calls[a].resp
            text == EarliestText(body)
        IN  (/\ ~Raised(artifacts_response)
             /\ ~extract_text(body).raised
             /\ extract_text(body).value.kind = "str") =>
                Answers(last) =
                    {JStr(IF /\ artifacts_response.status = HTTP_OK
                             /\ artifacts_response.json[2] > 0
                          THEN text \o Notice ELSE text)}

\* The fallback text has been sent with the notice.
C24_Witness ==
    /\ last.op = "handle_message"
    /\ JStr(Fallback \o Notice) \in Answers(last)

\* The participants of a dialogue that are religions of the taxonomy.
ValidGiven(religions) ==
    {i \in DOMAIN religions : lower(religions[i]) \in RELIGIONS}

\* C25: a dialogue asked for with fewer than two valid participants among
\* those given returns the error payload and invokes no generation.
C25_TwoValidParticipants ==
    (/\ lastq.fn \in InterfaithFns
     /\ lastq.input[2] # <<>>
     /\ Cardinality(ValidGiven(lastq.input[2])) < 2) =>
        /\ lastq.result.status = "error"
        /\ lastq.generated = 0

\* The methods that give the meditation guide.
MeditationFns == {"get_meditation_guide", "agent_get_meditation_guide"}
\* The durations from 1 to 60, as the methods echo them.
ValidDurations == {str(d) : d \in 1..60}

\* C26: a meditation guide of a duration outside 1..60 is the error
\* payload, with no generation and no key built; one of a duration in
\* 1..60 is a success payload unless the generation was invoked and failed.
C26_DurationRange ==
    lastq.fn \in MeditationFns =>
        IF lastq.input[2] \in ValidDurations
        THEN lastq.result.status = "ok" \/ lastq.generated = 1
        ELSE /\ lastq.result.status = "error"
             /\ lastq.generated = 0
             /\ lastq.key = NoKey

\* The query names a religion or philosophy that is not in the taxonomy.
UnknownIdentifier(q) ==
    \/ q.fn = "get_religious_information" /\ lower(q.input[1]) \notin RELIGIONS
    \/ q.fn = "get_philosophical_perspective" /\ lower(q.input[1]) \notin PHILOSOPHIES
    \/ /\ q.fn = "compare_religions"
       /\ \E i \in 1..2 : lower(q.input[i]) \notin RELIGIONS

\* C27: a query about a religion or philosophy that is not in the taxonomy,
\* or a comparison with such a religion on either side, returns the error
\* payload, invokes no generation and leaves the cache as it was.
C27_UnknownIdentifier ==
    [][UnknownIdentifier(lastq') =>
          /\ lastq'.result.status = "error"
          /\ lastq'.generated = 0
          /\ response_cache' = response_cache]_vars

\* A comparison with an unknown second religion was refused while the cache
\* held an entry.
C27_Witness ==
    /\ lastq.fn = "compare_religions"
    /\ lastq.input[2] = <<"atlantis">>
    /\ lastq.result.status = "error"
    /\ response_cache # <<>>

\* C28: every query returns a success payload, which holds a generated
\* text, or the error payload; a query that invoked the generation and
\* returns the error payload leaves the cache as it was.
C28_PayloadOrError ==
    [][/\ lastq'.result.status \in {"ok", "error"}
       /\ lastq'.result.status = "ok" => lastq'.result.content # GenerationFails.text
       /\ (lastq'.generated > 0 /\ lastq'.result.status = "error") =>
              response_cache' = response_cache]_vars

\* A query whose generation failed returned the error payload while the
\* cache held an entry.
C28_Witness ==
    /\ lastq.fn = "get_religious_information"
    /\ lastq.generated = 1
    /\ lastq.result.status = "error"
    /\ response_cache # <<>>

\* The methods that give the practice guide.
PracticeFns == {"get_spiritual_practice_guide", "agent_get_spiritual_practice_guide"}

\* C29: a practice guide asked for with a level outside beginner,
\* intermediate, advanced has level "beginner" in its payload, and when it
\* directly follows the generated beginner guide of the same method for the
\* same practice and tradition it is that guide, taken from the cache.
C29_LevelNormalised ==
    [][(/\ lastq'.fn \in PracticeFns
        /\ lower(lastq'.input[3]) \notin valid_levels) =>
          /\ lastq'.result.status = "ok" => lastq'.result.args[3] = <<"beginner">>
          /\ (/\ lastq.fn = lastq'.fn
              /\ lastq.input[1] = lastq'.input[1]
              /\ lastq.input[2] = lastq'.input[2]
              /\ lastq.input[3] = <<"beginner">>
              /\ lastq.generated = 1
              /\ lastq.result.status = "ok") =>
                /\ lastq'.hit
                /\ lastq'.generated = 0
                /\ lastq'.result = lastq.result]_vars

\* C30: the bot starts polling only from startup, with the token set and
\* a probe that was answered with status 200; with the token missing or
\* the probe failed the process is over; updates are handled only while
\* the bot polls, and nothing happens once the process is over.
C30_StartupGate ==
    [][/\ (phase' = "polling" /\ phase # "polling") =>
              /\ phase = "starting"
              /\ last'.op = "main"
              /\ Len(last'.calls) = 1
              /\ last'.calls[1].op = "probe"
              /\ ~last'.calls[1].resp.err
              /\ last'.calls[1].resp.status = HTTP_OK
       /\ (phase = "starting" /\ phase' # "starting"
              /\ (\/ last'.calls = <<>>
                  \/ last'.calls[1].resp.err
                  \/ last'.calls[1].resp.status # HTTP_OK)) =>
              phase' = "exited"
       /\ (last' # last /\ last'.op # "main") =>
              phase = "polling" /\ phase' = "polling"
       /\ phase = "exited" => UNCHANGED vars]_vars

\* The probe was refused or not answered, and the process is over without
\* an update handled.
C30_Witness ==
    /\ phase = "exited"
    /\ last.op = "main"
    /\ last.calls # <<>>
    /\ (last.calls[1].resp.err \/ last.calls[1].resp.status # HTTP_OK)
    /\ user_sessions = <<>>

\* The create call was answered 200 with a JSON object that carries an id.
ReturnedId(resp) == ~Failed(resp) /\ resp.json[1] = "id"

\* C31: a /newsession command issues exactly one remote call, a create call,
\* whether or not the user has a binding; no delete call is issued, so the
\* session bound before stays on the backend; and when the call answers 200
\* with an id, the user's binding afterwards holds that id and the handle
\* the call was made for.
C31_NewSessionCreates ==
    [][last'.op = "new_session" =>
          LET u == last'.user
              c == last'.calls[1]
          IN  /\ Len(last'.calls) = 1
              /\ c.op = "create"
              /\ c.before = BindingsOf(user_sessions, u)
              /\ CallsOf(last', "delete") = {}
              /\ ReturnedId(c.resp) =>
                    BindingsOf(user_sessions', u) =
                        {Binding(c.resp.json[2], c.handle)}]_vars

\* A user bound to one session has created another with /newsession and is
\* now bound to the new one.
C31_Witness ==
    /\ last.op = "new_session"
    /\ Len(last.calls) = 1
    /\ ReturnedId(last.calls[1].resp)
    /\ \E b \in last.calls[1].before :
          b.session_id # last.calls[1].resp.json[2]
    /\ user_sessions[last.user].session_id = last.calls[1].resp.json[2]

\* The call was answered with a 2xx status and a body of the expected form.
Answered2xx(c) ==
    /\ ~c.resp.err
    /\ c.resp.status \in 200..299
    /\ c.op = "create" => c.resp.json[1] = "id"
    /\ c.op = "run" => c.resp.json[1] = "json"
    /\ c.op = "artifacts" => c.resp.json[1] = "list"

\* C32: a create, delete, run or artifact call answered with any 2xx status
\* has the effect of a success: the create binds the user to the returned
\* id, the delete removes the binding, the run is followed by the artifact
\* query and an answer, and an artifact list that is not empty puts the
\* notice on the answer; none of them is reported to the user as a failure.
C32_Any2xxSucceeds ==
    [][\A i \in DOMAIN last'.calls :
          LET c == last'.calls[i]
              u == last'.user
          IN  Answered2xx(c) =>
                /\ c.op = "create" =>
                      /\ c.resp.json[2] \in
                            {b.session_id : b \in BindingsOf(user_sessions', u)}
                      /\ last'.replies[1] \in {<<"created">>, <<"auto_created">>}
                /\ c.op = "delete" =>
                      /\ u \notin DOMAIN user_sessions'
                      /\ last'.replies = << <<"deleted">> >>
                /\ c.op = "run" =>
                      /\ CallsOf(last', "artifacts") = {i + 1}
                      /\ last'.replies[Len(last'.replies)][1] = "answer"
                /\ c.op = "artifacts" /\ c.resp.json[2] > 0 =>
                      last'.replies[Len(last'.replies)] =
                          <<"answer", JStr(<<"q">> \o Notice)>>]_vars

\* C33: the delete call a confirm issues names the session id that the
\* confirmation prompt showed, the prompt being the message whose button
\* was pressed.
C33_ConfirmDeletesShown ==
    IsConfirm(last) =>
        \A i \in CallsOf(last, "delete") : last.calls[i].sid = last.pressed.shown

\* C34: no binding of the dict holds an absent session id (None, where the
\* create response was an object without "id"): the id of a binding is one
\* a create response carried or one of a listed session.
C34_BindingHoldsId ==
    \A u \in DOMAIN user_sessions : user_sessions[u].session_id # NoneId

\* C35: when the /run call of a message was answered 200 and a text was
\* extracted from the body (or the fallback taken), the last reply of the
\* handler is that text, with or without the artifact notice, whatever the
\* artifact query gave.
C35_ReplyDespiteArtifacts ==
    \A i \in CallsOf(last, "run") :
        LET rresp == last.calls[i].resp
        IN  (~RunRaised(rresp) /\ rresp.status = HTTP_OK) =>
              LET text == extract_text(rresp.json[2]).value
              IN  /\ text.kind = "str"
                  /\ last.replies[Len(last.replies)] \in
                        {<<"answer", text>>,
                         <<"answer", JStr(text.chars \o Notice)>>}

\* C37: a run, artifact or delete call is made for the user handle that the
\* caller's binding recorded when the session was created or selected.
C37_CallsUseBoundHandle ==
    \A i \in DOMAIN last.calls :
        last.calls[i].op \in {"run", "artifacts", "delete"} =>
            \A b \in last.calls[i].before :
                last.calls[i].handle = b.telegram_username

\* C38: every entry of the cache holds a success payload; an entry appears
\* or changes only in a call that built its key, invoked the Generation
\* Service once and returns the payload the entry holds, stamped with the
\* time of the call; and a call answered from the cache returns a success
\* payload that the cache held under its key.
C38_EntriesAreGenerated ==
    [][/\ \A k \in DOMAIN response_cache' :
             /\ response_cache'[k].data.status = "ok"
             /\ (k \notin DOMAIN response_cache
                    \/ response_cache'[k] # response_cache[k]) =>
                   /\ lastq'.key = k
                   /\ lastq'.generated = 1
                   /\ ~lastq'.hit
                   /\ response_cache'[k] = CacheEntry(lastq'.result, now')
       /\ lastq'.hit =>
             /\ lastq'.result.status = "ok"
             /\ lastq'.result \in {e.data : e \in lastq'.found}]_vars

\* The packaged dialogue method has returned the error payload of a failed
\* generation for a key the cache does not hold, while the cache holds
\* entries of other keys.
C38_Witness ==
    /\ lastq.fn = "get_interfaith_dialogue"
    /\ lastq.generated = 1
    /\ lastq.result.status = "error"
    /\ lastq.key # NoKey
    /\ lastq.key \notin DOMAIN response_cache
    /\ response_cache # <<>>

\* C39: when two calls of get_religious_information that follow one another
\* build the same key, they name the same religion (whatever its case) and
\* the same category, and their questions agree on the first 50 characters.
C39_SlotSharedOnlyIfAgree ==
    [][(/\ lastq.fn = "get_religious_information"
        /\ lastq'.fn = "get_religious_information"
        /\ lastq.key # NoKey
        /\ lastq'.key = lastq.key) =>
          /\ lower(lastq'.input[1]) = lower(lastq.input[1])
          /\ lastq'.input[2] = lastq.input[2]
          /\ Slice(lastq'.input[3], KeyPrefix) = Slice(lastq.input[3], KeyPrefix)]_vars

\* C36: no handler ends in an exception it does not catch, and a message
\* handler that has ended has either posted the message to /run with the
\* session id the user is bound to, or has told the user that no session
\* could be created; this with updates of the same user, confirms of a
\* delete among them, arriving while the handler is suspended.
C36_NoUnhandledFailure ==
    /\ ~loop.raised
    /\ last.op = "handle_message" =>
          \/ /\ CallsOf(last, "run") # {}
             /\ \A i \in CallsOf(last, "run") :
                   last.calls[i].sid \in
                       {b.session_id : b \in last.calls[i].before}
          \/ last.replies \in {<< <<"auto_create_failed">> >>,
                               << <<"went_wrong_session">> >>}

\* A message handler has created a session and bound the user to it and is
\* suspended in the reply that announces it, before it reads the session
\* id, while a confirm of the same user waits in the queue.
C36_Witness ==
    \E co \in loop.running :
        /\ co.upd.op = "handle_message"
        /\ co.pc = "reply_text"
        /\ co.upd.user \in DOMAIN user_sessions
        /\ \E i \in DOMAIN loop.queue :
              /\ loop.queue[i].op = "button_callback"
              /\ loop.queue[i].data = ConfirmData
              /\ loop.queue[i].user = co.upd.user

====
